---- MODULE Spec2Model ----
(***************************************************************************)
(* A model of the Walmart retail sales forecasting pipeline:               *)
(*   - data_pipeline/feature_engineering.py (the feature builders),        *)
(*   - models/metrics.py (the holiday-weighted error),                     *)
(*   - models/trainer.py and models/train.py (the forecaster),             *)
(*   - models/generate_forecasts.py (extrapolation and the forecast write).*)
(* Data frames are sequences of records; a nullable cell is the empty      *)
(* sequence (NaN) or a one-element sequence holding the value.             *)
(* Each part of the pipeline has its own specification over its variables; *)
(* the variables of the other parts stay at their idle values.             *)
(***************************************************************************)
EXTENDS Integers, Sequences, FiniteSets, TLC

VARIABLES
    \* feature engineering (feature_engineering.py)
    sales_df,       \* the raw sales frame passed in
    features_df,    \* the indicator frame passed in
    stores_df,      \* the store metadata frame passed in
    fe_op,          \* the builder that ran last ("none" before any)
    fe_out,         \* the frame it returned
    \* temporal split (trainer.py, create_train_val_split)
    split_df,       \* the feature table passed in
    split_op,       \* "none", or "split" once create_train_val_split returned
    val_weeks,      \* its val_weeks argument
    train_df,       \* the training part returned
    val_df,         \* the validation part returned
    \* weighted error (metrics.py, calculate_wmae)
    y_true,         \* the arguments
    y_pred,
    is_holiday,
    wmae_op,        \* "none", or "wmae" once calculate_wmae ended
    wmae_out,       \* how it ended: a value (num / den), nan, or ValueError
    \* forecast generation (generate_forecasts.py)
    fc_features,    \* the latest feature row of each series, as loaded
    fc_model,       \* the booster the run loaded (a cell: null before the load)
    fc_weeks,       \* forecast_weeks
    forecasts,      \* the rows of the forecasts table, as committed
    forecast_df,    \* the frame generate_predictions returned in this run
    fc_pc,          \* the run: "idle", "write" (frame built), "insert" (old rows deleted)
    fc_result,      \* how the run ended: "none", "running", "ok", "failed", "no_features"
    prev_forecasts, \* the table as it was when write_forecasts started
    seen,           \* what the dashboard read last, and whether during a write
    \* the forecaster object and what it persists (trainer.py, train.py)
    model,          \* self.model: a cell, null for None
    feature_names,  \* self.feature_names: a cell, null for None
    model_file,     \* models/saved/walmart_forecaster.txt: a cell, null when absent
    model_metadata, \* the number of rows of the model_metadata table
    tr_call,        \* the last call on the forecaster and how it ended
    saved_model,    \* the in-memory booster the model file was written from
    completed,      \* a train or a load_model has returned on this forecaster
    \* the arguments of a fit (trainer.py train), with train_df and val_df
    has_val,        \* val_df is not None
    \* the engineered_features table (run_feature_engineering.py)
    ef_table,       \* the rows of the table, in the order they were written
    ef_call         \* the last write_features_to_db: the frame it was passed and the outcome

feVars == <<sales_df, features_df, stores_df, fe_op, fe_out>>

splitVars == <<split_df, split_op, val_weeks, train_df, val_df>>

wmaeVars == <<y_true, y_pred, is_holiday, wmae_op, wmae_out>>

fcInputs == <<fc_features, fc_model, fc_weeks>>

fcVars == <<fcInputs, forecasts, forecast_df, fc_pc, fc_result, prev_forecasts, seen>>

trVars == <<model, feature_names, model_file, model_metadata, tr_call,
            saved_model, completed>>

fitVars == <<has_val>>

efVars == <<ef_table, ef_call>>

vars == <<feVars, splitVars, wmaeVars, fcVars, trVars, fitVars, efVars>>

----------------------------------------------------------------------------
(* Nullable cells and small helpers                                        *)

NaN == <<>>

Some(v) == <<v>>

IsNull(c) == c = <<>>

Val(c) == c[1]

Range(s) == {s[i] : i \in 1..Len(s)}

\* The sequences over S of length 0..n.
SeqsUpTo(S, n) == UNION {[1..k -> S] : k \in 0..n}

\* Lexicographic order on integer tuples of one length.
LexLess(a, b) ==
    \E i \in 1..Len(a) : a[i] < b[i] /\ \A j \in 1..(i - 1) : a[j] = b[j]

\* Insert position i into idx, the sorted list of the later positions: before
\* the first entry whose key is not smaller, so rows of equal key keep their
\* input order.
RECURSIVE InsertIdx(_, _, _)
InsertIdx(i, idx, keys) ==
    IF idx = <<>> THEN <<i>>
    ELSE IF ~LexLess(keys[Head(idx)], keys[i]) THEN <<i>> \o idx
    ELSE <<Head(idx)>> \o InsertIdx(i, Tail(idx), keys)

RECURSIVE SortIdx(_, _, _)
SortIdx(k, n, keys) ==
    IF k > n THEN <<>> ELSE InsertIdx(k, SortIdx(k + 1, n, keys), keys)

\* DataFrame.sort_values(by): the rows of s in ascending order of their keys
\* (keys[i] is the tuple of the by-columns of row i), rows of equal key in
\* their input order.
SortByKey(s, keys) ==
    LET idx == SortIdx(1, Len(s), keys)
    IN  [i \in 1..Len(s) |-> s[idx[i]]]

\* The positions i of 1..n, in order, with test[i].
RECURSIVE PositionsFrom(_, _, _)
PositionsFrom(i, n, test) ==
    IF i > n THEN <<>>
    ELSE (IF test[i] THEN <<i>> ELSE <<>>) \o PositionsFrom(i + 1, n, test)

\* The place of value i in the sequence idx of distinct values (0 if absent).
IndexOf(idx, i) ==
    IF \E k \in 1..Len(idx) : idx[k] = i
    THEN CHOOSE k \in 1..Len(idx) : idx[k] = i
    ELSE 0

RECURSIVE Flatten(_)
Flatten(ss) == IF ss = <<>> THEN <<>> ELSE Head(ss) \o Flatten(Tail(ss))

RECURSIVE SumSeq(_)
SumSeq(s) == IF s = <<>> THEN 0 ELSE Head(s) + SumSeq(Tail(s))

MinOf(S) == CHOOSE x \in S : \A y \in S : x <= y

MaxOf(S) == CHOOSE x \in S : \A y \in S : x >= y

----------------------------------------------------------------------------
(* Calendar arithmetic on dates given as days since 1970-01-01             *)

\* The civil date of a day number (proleptic Gregorian calendar).
CivilFromDays(days) ==
    LET z   == days + 719468
        era == z \div 146097
        doe == z - era * 146097
        yoe == (doe - doe \div 1460 + doe \div 36524 - doe \div 146096) \div 365
        doy == doe - (365 * yoe + yoe \div 4 - yoe \div 100)
        mp  == (5 * doy + 2) \div 153
        d   == doy - (153 * mp + 2) \div 5 + 1
        m   == IF mp < 10 THEN mp + 3 ELSE mp - 9
        y   == yoe + era * 400 + (IF m <= 2 THEN 1 ELSE 0)
    IN  [year |-> y, month |-> m, day |-> d]

\* date.weekday(): Monday is 0.
Weekday(days) == (days + 3) % 7

\* The day number of January 1st of the year of a day number.
RECURSIVE YearStart(_)
YearStart(days) ==
    LET c == CivilFromDays(days)
    IN  IF c.month = 1 /\ c.day = 1 THEN days
        ELSE YearStart(days - (IF c.day > 1 THEN c.day - 1 ELSE 1))

\* date.isocalendar().week: the week of the year that holds the Thursday of
\* the date's week.
IsoWeek(days) ==
    LET thursday == days - Weekday(days) + 3
    IN  (thursday - YearStart(thursday)) \div 7 + 1

----------------------------------------------------------------------------
(* data_pipeline/feature_engineering.py                                    *)

\* The by-columns of the sorts, and the group keys, per row of a frame.
KeyStoreDeptDate(r) == <<r.store_id, r.dept_id, r.date>>

KeyStoreDate(r) == <<r.store_id, r.date>>

SortStoreDeptDate(df) ==
    SortByKey(df, [i \in 1..Len(df) |-> KeyStoreDeptDate(df[i])])

SortStoreDate(df) ==
    SortByKey(df, [i \in 1..Len(df) |-> KeyStoreDate(df[i])])

SeriesOf(df) == [i \in 1..Len(df) |-> <<df[i].store_id, df[i].dept_id>>]

StoreOf(df) == [i \in 1..Len(df) |-> <<df[i].store_id>>]

\* The positions of the rows in the group of row j, in frame order
\* (groups[i] is the group key of row i).
GroupPositions(groups, j) ==
    PositionsFrom(1, Len(groups), [i \in 1..Len(groups) |-> groups[i] = groups[j]])

\* groupby(group)[col].shift(k) at row j: the cell (cells[i] is the cell of
\* row i) of the row k places earlier among the rows of the group of row j.
GroupShift(cells, groups, j, k) ==
    LET grp == GroupPositions(groups, j)
        at  == IndexOf(grp, j)
    IN  IF at > k THEN cells[grp[at - k]] ELSE NaN

\* The cells of the trailing window of w rows ending at row j, within the
\* group of row j (rolling(window=w, min_periods=1)).
GroupWindow(cells, groups, j, w) ==
    LET grp == GroupPositions(groups, j)
        at  == IndexOf(grp, j)
        lo  == IF at > w THEN at - w + 1 ELSE 1
    IN  [i \in 1..(at - lo + 1) |-> cells[grp[lo + i - 1]]]

\* x.diff() within the group: null on the group's first row and wherever one
\* of the two cells is null.
GroupDiff(cells, groups, j) ==
    LET prev == GroupShift(cells, groups, j, 1)
        cur  == cells[j]
    IN  IF IsNull(prev) \/ IsNull(cur) THEN NaN ELSE Some(Val(cur) - Val(prev))

create_temporal_features(df) ==
    [i \in 1..Len(df) |->
        LET d == df[i].date
            c == CivilFromDays(d)
        IN  df[i] @@ [week_of_year   |-> IsoWeek(d),
                      month          |-> c.month,
                      quarter        |-> (c.month - 1) \div 3 + 1,
                      is_month_start |-> c.day = 1,
                      is_month_end   |-> CivilFromDays(d + 1).day = 1]]

\* Mutant of create_lag_features: the shift runs on the frame as passed in,
\* without the sort by (store_id, dept_id, date).
create_lag_features_unsorted(df, lags) ==
    LET sales == [i \in 1..Len(df) |-> Some(df[i].weekly_sales)]
    IN  [j \in 1..Len(df) |->
            df[j] @@ [sales_lag |->
                [k \in lags |-> GroupShift(sales, SeriesOf(df), j, k)]]]

create_lag_features(df, lags) ==
    LET s     == SortStoreDeptDate(df)
        sales == [i \in 1..Len(s) |-> Some(s[i].weekly_sales)]
    IN  [j \in 1..Len(s) |->
            s[j] @@ [sales_lag |->
                [k \in lags |-> GroupShift(sales, SeriesOf(s), j, k)]]]

\* Mutant of RollingStd: the population standard deviation (ddof=0), which is
\* 0 on a single observation.
RollingStd_ddof0(win) ==
    LET n == Len(win)
    IN  Some(<<n * SumSeq([i \in 1..n |-> win[i] * win[i]])
                   - SumSeq(win) * SumSeq(win),
               n * n>>)

\* rolling(...).std() of a window: the sample standard deviation (ddof=1),
\* null with fewer than two observations; kept as <<num, den>>, the variance
\* num / den whose square root it is.
RollingStd(win) ==
    LET n == Len(win)
    IN  IF n < 2 THEN NaN
        ELSE Some(<<n * SumSeq([i \in 1..n |-> win[i] * win[i]])
                        - SumSeq(win) * SumSeq(win),
                    n * (n - 1)>>)

\* rolling_mean_w is kept as <<sum, count>> of the window; the extra minimum
\* and maximum are built for the window of 4 only.
create_rolling_features(df, windows) ==
    LET s     == SortStoreDeptDate(df)
        sales == [i \in 1..Len(s) |-> s[i].weekly_sales]
        Win(j, w) == GroupWindow(sales, SeriesOf(s), j, w)
    IN  [j \in 1..Len(s) |->
            s[j] @@ [rolling_mean |->
                        [w \in windows |-> <<SumSeq(Win(j, w)), Len(Win(j, w))>>],
                     rolling_std |->
                        [w \in windows |-> RollingStd(Win(j, w))],
                     rolling_min |->
                        [w \in windows \cap {4} |-> MinOf(Range(Win(j, w)))],
                     rolling_max |->
                        [w \in windows \cap {4} |-> MaxOf(Range(Win(j, w)))]]]

\* The three changes are x.diff() over the rows of the store, in the order
\* the sort by (store_id, date) leaves them. (temperature_deviation, a
\* difference to the store's mean, is not modelled.)
create_economic_features(df) ==
    LET s     == SortStoreDate(df)
        fuel  == [i \in 1..Len(s) |-> s[i].fuel_price]
        cpi   == [i \in 1..Len(s) |-> s[i].cpi]
        unemp == [i \in 1..Len(s) |-> s[i].unemployment]
    IN  [j \in 1..Len(s) |->
            s[j] @@ [fuel_price_change   |-> GroupDiff(fuel, StoreOf(s), j),
                     cpi_change          |-> GroupDiff(cpi, StoreOf(s), j),
                     unemployment_change |-> GroupDiff(unemp, StoreOf(s), j)]]

FillNa(c) == IF IsNull(c) THEN 0 ELSE Val(c)

\* Mutant of create_markdown_features: without the fillna(0) of the markdown
\* columns (the row sum skips nulls all the same).
create_markdown_features_nofill(df) ==
    [i \in 1..Len(df) |->
        LET filled == [m \in 1..Len(df[i].markdown) |-> FillNa(df[i].markdown[m])]
            total  == SumSeq(filled)
        IN  [total_markdown |-> total,
             has_markdown   |-> IF total > 0 THEN 1 ELSE 0,
             markdown_count |-> Cardinality({m \in 1..Len(filled) : filled[m] > 0})]
            @@ df[i]]

create_markdown_features(df) ==
    [i \in 1..Len(df) |->
        LET filled == [m \in 1..Len(df[i].markdown) |-> FillNa(df[i].markdown[m])]
            total  == SumSeq(filled)
        IN  [markdown       |-> [m \in 1..Len(filled) |-> Some(filled[m])],
             total_markdown |-> total,
             has_markdown   |-> IF total > 0 THEN 1 ELSE 0,
             markdown_count |-> Cardinality({m \in 1..Len(filled) : filled[m] > 0})]
            @@ df[i]]

\* The indicator columns a merged row takes from the indicator row f.
WithIndicators(l, f) ==
    l @@ [fuel_price |-> f.fuel_price, cpi |-> f.cpi,
          unemployment |-> f.unemployment, markdown |-> f.markdown]

NoIndicators ==
    [fuel_price |-> NaN, cpi |-> NaN, unemployment |-> NaN,
     markdown |-> [m \in 1..5 |-> NaN]]

\* Mutant of MergeIndicators: an inner join, which drops the sales rows that
\* have no indicator row.
MergeIndicatorsInner(sales, feats) ==
    Flatten([i \in 1..Len(sales) |->
        LET m == SelectSeq(feats, LAMBDA f : f.store_id = sales[i].store_id
                                             /\ f.date = sales[i].date)
        IN  [n \in 1..Len(m) |-> WithIndicators(sales[i], m[n])]])

\* sales_df.merge(features_df, on=['store_id', 'date'], how='left'), with the
\* indicator's is_holiday dropped: each sales row once per matching indicator
\* row, in the sales order, or once with null cells when none matches.
MergeIndicators(sales, feats) ==
    Flatten([i \in 1..Len(sales) |->
        LET m == SelectSeq(feats, LAMBDA f : f.store_id = sales[i].store_id
                                             /\ f.date = sales[i].date)
        IN  IF m = <<>> THEN <<WithIndicators(sales[i], NoIndicators)>>
            ELSE [n \in 1..Len(m) |-> WithIndicators(sales[i], m[n])]])

\* The one-hot columns of a store type ("NaN": no store row matched).
OneHot(r, t) ==
    r @@ [store_type_a |-> IF t = "A" THEN 1 ELSE 0,
          store_type_b |-> IF t = "B" THEN 1 ELSE 0,
          store_type_c |-> IF t = "C" THEN 1 ELSE 0]

\* The left merge with the store frame on store_id, the one-hot columns, and
\* the drop of store_type and size.
create_store_features(df, stores) ==
    Flatten([i \in 1..Len(df) |->
        LET m == SelectSeq(stores, LAMBDA st : st.store_id = df[i].store_id)
        IN  IF m = <<>> THEN <<OneHot(df[i], "NaN")>>
            ELSE [n \in 1..Len(m) |-> OneHot(df[i], m[n].store_type)]])

\* df.rename(columns={'date': 'feature_date'}), on one row.
RenameDate(r) ==
    [c \in (DOMAIN r \ {"date"}) \cup {"feature_date"} |->
        IF c = "feature_date" THEN r.date ELSE r[c]]

\* The lags and windows engineer_features passes to the builders.
PipelineLags == {1, 2, 4, 8, 52}

PipelineWindows == {4, 13, 52}

engineer_features(sales, feats, stores) ==
    LET merged == MergeIndicators(sales, feats)
        t  == create_temporal_features(merged)
        lg == create_lag_features(t, PipelineLags)
        ro == create_rolling_features(lg, PipelineWindows)
        ec == create_economic_features(ro)
        md == create_markdown_features(ec)
        st == create_store_features(md, stores)
    IN  [i \in 1..Len(st) |-> RenameDate(st[i])]

----------------------------------------------------------------------------
(* models/trainer.py: create_train_val_split                               *)

DaysPerWeek == 7

SortFeatureDate(df) ==
    SortByKey(df, [i \in 1..Len(df) |-> <<df[i].feature_date>>])

\* df['feature_date'].max(): null (NaT) on an empty frame.
MaxFeatureDate(df) ==
    IF df = <<>> THEN NaN
    ELSE Some(MaxOf({df[i].feature_date : i \in 1..Len(df)}))

\* A comparison with NaT is false.
DateLess(d, c) == ~IsNull(c) /\ d < Val(c)

DateGeq(d, c) == ~IsNull(c) /\ d >= Val(c)

\* max_date - pd.Timedelta(weeks=weeks)
ValStartDate(df, weeks) ==
    IF IsNull(MaxFeatureDate(df)) THEN NaN
    ELSE Some(Val(MaxFeatureDate(df)) - DaysPerWeek * weeks)

\* Mutant of create_train_val_split: the training part takes the rows up to
\* and including the validation start date.
create_train_val_split_overlap(df, weeks) ==
    LET s     == SortFeatureDate(df)
        start == ValStartDate(s, weeks)
    IN  <<SelectSeq(s, LAMBDA r : ~IsNull(start) /\ r.feature_date <= Val(start)),
          SelectSeq(s, LAMBDA r : DateGeq(r.feature_date, start))>>

\* The pair (train_df, val_df).
create_train_val_split(df, weeks) ==
    LET s     == SortFeatureDate(df)
        start == ValStartDate(s, weeks)
    IN  <<SelectSeq(s, LAMBDA r : DateLess(r.feature_date, start)),
          SelectSeq(s, LAMBDA r : DateGeq(r.feature_date, start))>>

----------------------------------------------------------------------------
(* models/metrics.py: calculate_wmae                                       *)

Abs(x) == IF x < 0 THEN -x ELSE x

\* numpy broadcasting of two one-dimensional arrays of lengths m and n: the
\* lengths agree, or one of them is 1 and that element is repeated.
Broadcastable(m, n) == m = n \/ m = 1 \/ n = 1

BroadcastLen(m, n) == IF m = 1 THEN n ELSE m

At(x, i) == IF Len(x) = 1 THEN x[1] ELSE x[i]

HolidayWeight == 5

OrdinaryWeight == 1

\* np.where(is_holiday, 5.0, 1.0)
Weights(h) == [i \in 1..Len(h) |-> IF h[i] THEN HolidayWeight ELSE OrdinaryWeight]

WmaeValue(n, d) == [kind |-> "value", num |-> n, den |-> d]

WmaeNan == [kind |-> "nan", num |-> 0, den |-> 0]

WmaeValueError == [kind |-> "ValueError", num |-> 0, den |-> 0]

\* Mutant of calculate_wmae: the errors are not made absolute.
calculate_wmae_signed(yt, yp, h) ==
    IF ~Broadcastable(Len(yt), Len(yp)) THEN WmaeValueError
    ELSE LET w   == Weights(h)
             err == [i \in 1..BroadcastLen(Len(yt), Len(yp)) |-> At(yt, i) - At(yp, i)]
         IN  IF ~Broadcastable(Len(w), Len(err)) THEN WmaeValueError
             ELSE IF SumSeq(w) = 0 THEN WmaeNan
             ELSE WmaeValue(SumSeq([i \in 1..BroadcastLen(Len(w), Len(err)) |->
                                       At(w, i) * At(err, i)]),
                            SumSeq(w))

\* calculate_wmae on numpy arrays: the value np.sum(weighted_errors) /
\* np.sum(weights) is kept as the fraction num / den; 0.0 / 0.0 is nan; arrays
\* that do not broadcast raise ValueError.
calculate_wmae(yt, yp, h) ==
    IF ~Broadcastable(Len(yt), Len(yp)) THEN WmaeValueError
    ELSE LET w   == Weights(h)
             err == [i \in 1..BroadcastLen(Len(yt), Len(yp)) |->
                        Abs(At(yt, i) - At(yp, i))]
         IN  IF ~Broadcastable(Len(w), Len(err)) THEN WmaeValueError
             ELSE IF SumSeq(w) = 0 THEN WmaeNan
             ELSE WmaeValue(SumSeq([i \in 1..BroadcastLen(Len(w), Len(err)) |->
                                       At(w, i) * At(err, i)]),
                            SumSeq(w))

----------------------------------------------------------------------------
(* The frames the feature builders are run on                              *)

MaxRows == 3        \* rows of a sales frame

MaxDate == 3        \* distinct weekly dates

StoreIds == {1, 2}

DeptIds == {1, 2}

\* The first weekly date (a Friday), as days since 1970-01-01: 2023-01-06.
FirstDate == 19363

WeekOf(date) == (date - FirstDate) \div 7 + 1

Dates == {FirstDate + 7 * (w - 1) : w \in 1..MaxDate}

\* raw_sales rows: (store_id, dept_id, date) is unique; the sales value tells
\* the row it comes from.
SalesRow(store, dept, date) ==
    [store_id |-> store, dept_id |-> dept, date |-> date,
     weekly_sales |-> 1000 * store + 100 * dept + WeekOf(date),
     is_holiday |-> WeekOf(date) = 2]

SalesKeys == StoreIds \X DeptIds \X Dates

\* Every sales frame of at most MaxRows rows, in every row order.
SalesFrames ==
    {[i \in 1..Len(q) |-> SalesRow(q[i][1], q[i][2], q[i][3])] :
        q \in {q \in SeqsUpTo(SalesKeys, MaxRows) :
                  \A i, j \in 1..Len(q) : i # j => q[i] # q[j]}}

\* features rows: one per (store_id, date); a markdown may be null.
FeatureRow(store, date) ==
    [store_id |-> store, date |-> date,
     fuel_price |-> Some(10 * store + WeekOf(date) * WeekOf(date)),
     cpi |-> Some(200 + 2 * store * WeekOf(date)),
     unemployment |-> Some(90 - WeekOf(date)),
     markdown |-> [m \in 1..5 |->
                     IF m <= WeekOf(date) - store THEN Some(100 * m) ELSE NaN],
     is_holiday |-> WeekOf(date) = 2]

AllFeatureRows ==
    [i \in 1..(2 * MaxDate) |->
        FeatureRow((i - 1) \div MaxDate + 1,
                   FirstDate + 7 * ((i - 1) % MaxDate))]

DropRow(s, i) == SubSeq(s, 1, i - 1) \o SubSeq(s, i + 1, Len(s))

\* The indicator frames: complete, empty, or lacking one (store, date).
FeatureFrames ==
    {AllFeatureRows, <<>>} \cup
    {DropRow(AllFeatureRows, i) : i \in 1..Len(AllFeatureRows)}

AllStoreRows ==
    <<[store_id |-> 1, store_type |-> "A", size |-> 150000],
      [store_id |-> 2, store_type |-> "B", size |-> 100000]>>

\* The store frames: complete, empty, or lacking one store.
StoreFrames ==
    {AllStoreRows, <<>>} \cup
    {DropRow(AllStoreRows, i) : i \in 1..Len(AllStoreRows)}

\* The lag lists create_lag_features is called with.
LagSets == {{1}, {1, 2, 4}}

----------------------------------------------------------------------------
(* Specification of the feature builders                                   *)

\* The idle values of the parts a specification leaves alone.
IdleFE ==
    /\ sales_df = <<>>
    /\ features_df = <<>>
    /\ stores_df = <<>>
    /\ fe_op = "none"
    /\ fe_out = <<>>

IdleSplit ==
    /\ split_df = <<>>
    /\ split_op = "none"
    /\ val_weeks = 0
    /\ train_df = <<>>
    /\ val_df = <<>>

IdleWmae ==
    /\ y_true = <<>>
    /\ y_pred = <<>>
    /\ is_holiday = <<>>
    /\ wmae_op = "none"
    /\ wmae_out = [kind |-> "none", num |-> 0, den |-> 0]

NotSeen == [during |-> FALSE, rows |-> {}]

IdleForecast ==
    /\ fc_features = <<>>
    /\ fc_model = NaN
    /\ fc_weeks = 0
    /\ forecasts = <<>>
    /\ forecast_df = <<>>
    /\ fc_pc = "idle"
    /\ fc_result = "none"
    /\ prev_forecasts = <<>>
    /\ seen = NotSeen

NoCall == [op |-> "none", outcome |-> "none", fault |-> "none", value |-> 0]

IdleTrainer ==
    /\ model = NaN
    /\ feature_names = NaN
    /\ model_file = NaN
    /\ model_metadata = 0
    /\ tr_call = NoCall
    /\ saved_model = NaN
    /\ completed = FALSE

IdleFit == has_val = FALSE

\* No write_features_to_db yet.
NoWrite == [op |-> "none", lacking |-> {}, outcome |-> "none", run |-> 0]

IdleTable == ef_table = <<>> /\ ef_call = NoWrite

\* What each specification leaves alone.
OutsideFE == <<splitVars, wmaeVars, fcVars, trVars, fitVars, efVars>>

IdleOutsideFE ==
    IdleSplit /\ IdleWmae /\ IdleForecast /\ IdleTrainer /\ IdleFit /\ IdleTable

OutsideSplit == <<feVars, wmaeVars, fcVars, trVars, fitVars, efVars>>

IdleOutsideSplit ==
    IdleFE /\ IdleWmae /\ IdleForecast /\ IdleTrainer /\ IdleFit /\ IdleTable

OutsideWmae == <<feVars, splitVars, fcVars, trVars, fitVars, efVars>>

IdleOutsideWmae ==
    IdleFE /\ IdleSplit /\ IdleForecast /\ IdleTrainer /\ IdleFit /\ IdleTable

OutsideForecast == <<feVars, splitVars, wmaeVars, trVars, fitVars, efVars>>

IdleOutsideForecast ==
    IdleFE /\ IdleSplit /\ IdleWmae /\ IdleTrainer /\ IdleFit /\ IdleTable

OutsideTrainer == <<feVars, splitVars, wmaeVars, fcVars, fitVars, efVars>>

IdleOutsideTrainer ==
    IdleFE /\ IdleSplit /\ IdleWmae /\ IdleForecast /\ IdleFit /\ IdleTable

InitFE ==
    /\ sales_df \in SalesFrames
    /\ features_df = <<>>
    /\ stores_df = <<>>
    /\ fe_op = "none"
    /\ fe_out = <<>>
    /\ IdleOutsideFE

\* create_lag_features(sales_df, lags)
CreateLagFeatures ==
    /\ fe_op = "none"
    /\ \E lags \in LagSets : fe_out' = create_lag_features(sales_df, lags)
    /\ fe_op' = "create_lag_features"
    /\ UNCHANGED <<sales_df, features_df, stores_df, OutsideFE>>

NextFE ==
    \/ CreateLagFeatures

SpecFE == InitFE /\ [][NextFE]_vars

----------------------------------------------------------------------------
(* Specification of the feature pipeline (run_feature_engineering.py)      *)

\* load_data_from_db reads raw_sales ORDER BY store_id, dept_id, date.
SortedSalesFrames ==
    {f \in SalesFrames :
        \A i \in 1..(Len(f) - 1) :
            LexLess(KeyStoreDeptDate(f[i]), KeyStoreDeptDate(f[i + 1]))}

InitPipeline ==
    /\ sales_df \in SortedSalesFrames
    /\ features_df = <<>>
    /\ stores_df = <<>>
    /\ fe_op = "none"
    /\ fe_out = <<>>
    /\ IdleOutsideFE

\* engineer_features(sales_df, features_df, stores_df)
EngineerFeatures ==
    /\ fe_op = "none"
    /\ \E f \in FeatureFrames, st \in StoreFrames :
          /\ features_df' = f
          /\ stores_df' = st
          /\ fe_out' = engineer_features(sales_df, f, st)
    /\ fe_op' = "engineer_features"
    /\ UNCHANGED <<sales_df, OutsideFE>>

NextPipeline ==
    \/ EngineerFeatures

SpecPipeline == InitPipeline /\ [][NextPipeline]_vars

----------------------------------------------------------------------------
(* Properties of the feature builders                                      *)

SeriesKey(r) == <<r.store_id, r.dept_id>>

\* C1: engineer_features returns exactly one row per input sales row: as many
\* rows as the sales frame has, and each (store_id, dept_id, date) of the sales
\* frame on exactly one output row, whether or not an indicator row or a store
\* row exists for it.
C1_RowCountPreserved ==
    fe_op = "engineer_features" =>
        /\ Len(fe_out) = Len(sales_df)
        /\ \A i \in 1..Len(sales_df) :
              Cardinality({j \in 1..Len(fe_out) :
                  /\ fe_out[j].store_id = sales_df[i].store_id
                  /\ fe_out[j].dept_id = sales_df[i].dept_id
                  /\ fe_out[j].feature_date = sales_df[i].date
                  /\ fe_out[j].weekly_sales = sales_df[i].weekly_sales}) = 1

HasIndicator(r) ==
    \E i \in 1..Len(features_df) :
        features_df[i].store_id = r.store_id /\ features_df[i].date = r.date

HasStore(r) ==
    \E i \in 1..Len(stores_df) : stores_df[i].store_id = r.store_id

\* engineer_features has run on a frame that holds a sales row with an
\* indicator row and a store row, one without indicator row and one without
\* store row.
C1_Witness ==
    /\ fe_op = "engineer_features"
    /\ \E i, j, k \in 1..Len(sales_df) :
          /\ HasIndicator(sales_df[i]) /\ HasStore(sales_df[i])
          /\ ~HasIndicator(sales_df[j])
          /\ ~HasStore(sales_df[k])

\* The rows of the sales frame in the series of r that are dated before r.
Earlier(r) ==
    {i \in 1..Len(sales_df) :
        /\ SeriesKey(sales_df[i]) = SeriesKey(r)
        /\ sales_df[i].date < r.date}

\* C2: create_lag_features sets sales_lag_k on the i-th row (from 0, by date)
\* of a (store_id, dept_id) series to the weekly_sales of the (i-k)-th row of
\* that series, and to null when i < k; the value never comes from another
\* series.
C2_LagWithinSeries ==
    fe_op = "create_lag_features" =>
        /\ Len(fe_out) = Len(sales_df)
        /\ \A j \in 1..Len(fe_out) : \A k \in DOMAIN fe_out[j].sales_lag :
              LET r == fe_out[j]
                  i == Cardinality(Earlier(r))
              IN  IF i < k THEN IsNull(r.sales_lag[k])
                  ELSE \E n \in Earlier(r) :
                          /\ Cardinality(Earlier(sales_df[n])) = i - k
                          /\ r.sales_lag[k] = Some(sales_df[n].weekly_sales)

\* create_lag_features has run on a frame out of order that holds two series,
\* and has filled a lag of one of them.
C2_Witness ==
    /\ fe_op = "create_lag_features"
    /\ \E a, b \in 1..Len(sales_df) :
          a < b /\ LexLess(KeyStoreDeptDate(sales_df[b]), KeyStoreDeptDate(sales_df[a]))
    /\ \E a, b \in 1..Len(sales_df) : SeriesKey(sales_df[a]) # SeriesKey(sales_df[b])
    /\ \E j \in 1..Len(fe_out) : ~IsNull(fe_out[j].sales_lag[1])

----------------------------------------------------------------------------
(* Specification of the temporal split                                     *)

MaxSplitRows == 3   \* rows of a feature table

MaxSplitDay == 15   \* feature dates are FirstDate .. FirstDate + MaxSplitDay

MaxValWeeks == 2    \* val_weeks is 1..MaxValWeeks

\* Every feature table of at most MaxSplitRows rows, in every row order; rows
\* may share a date (the rows of several series).
SplitFrames ==
    {[i \in 1..Len(q) |-> [row_id |-> i, feature_date |-> FirstDate + q[i]]] :
        q \in SeqsUpTo(0..MaxSplitDay, MaxSplitRows)}

InitSplit ==
    /\ split_df \in SplitFrames
    /\ split_op = "none"
    /\ val_weeks = 0
    /\ train_df = <<>>
    /\ val_df = <<>>
    /\ IdleOutsideSplit

\* forecaster.create_train_val_split(split_df, val_weeks=w)
CreateTrainValSplit ==
    /\ split_op = "none"
    /\ \E w \in 1..MaxValWeeks :
          /\ val_weeks' = w
          /\ train_df' = create_train_val_split(split_df, w)[1]
          /\ val_df' = create_train_val_split(split_df, w)[2]
    /\ split_op' = "split"
    /\ UNCHANGED <<split_df, OutsideSplit>>

NextSplit ==
    \/ CreateTrainValSplit

SpecSplit == InitSplit /\ [][NextSplit]_vars

\* C3: create_train_val_split puts every input row in exactly one of the two
\* parts (len(train) + len(val) = len(input)) and every training date is
\* strictly before every validation date.
C3_SplitPartitionsByDate ==
    split_op = "split" =>
        /\ Len(train_df) + Len(val_df) = Len(split_df)
        /\ \A i \in 1..Len(split_df) :
              Cardinality({j \in 1..Len(train_df) : train_df[j] = split_df[i]})
              + Cardinality({j \in 1..Len(val_df) : val_df[j] = split_df[i]}) = 1
        /\ \A i \in 1..Len(train_df) : \A j \in 1..Len(val_df) :
              train_df[i].feature_date < val_df[j].feature_date

\* A split of a table out of date order with rows on both sides and a row
\* exactly on the validation start date.
C3_Witness ==
    /\ split_op = "split"
    /\ train_df # <<>>
    /\ \E j \in 1..Len(val_df) :
          val_df[j].feature_date + DaysPerWeek * val_weeks
              = MaxOf({split_df[i].feature_date : i \in 1..Len(split_df)})
    /\ \E i, j \in 1..Len(split_df) :
          i < j /\ split_df[j].feature_date < split_df[i].feature_date

----------------------------------------------------------------------------
(* Specification of the weighted error                                     *)

MaxLen == 2         \* length of each argument of calculate_wmae

MaxY == 2           \* sales values are 0..MaxY

InitWmae ==
    /\ y_true \in SeqsUpTo(0..MaxY, MaxLen)
    /\ y_pred \in SeqsUpTo(0..MaxY, MaxLen)
    /\ is_holiday \in SeqsUpTo(BOOLEAN, MaxLen)
    /\ wmae_op = "none"
    /\ wmae_out = [kind |-> "none", num |-> 0, den |-> 0]
    /\ IdleOutsideWmae

\* calculate_wmae(y_true, y_pred, is_holiday)
CalculateWmae ==
    /\ wmae_op = "none"
    /\ wmae_out' = calculate_wmae(y_true, y_pred, is_holiday)
    /\ wmae_op' = "wmae"
    /\ UNCHANGED <<y_true, y_pred, is_holiday, OutsideWmae>>

NextWmae ==
    \/ CalculateWmae

SpecWmae == InitWmae /\ [][NextWmae]_vars

\* The sum of |y_true - y_pred| over the rows in the index set S.
RECURSIVE ErrorOver(_)
ErrorOver(S) ==
    IF S = {} THEN 0
    ELSE LET i == CHOOSE i \in S : TRUE
         IN  Abs(y_true[i] - y_pred[i]) + ErrorOver(S \ {i})

HolidayRows == {i \in 1..Len(is_holiday) : is_holiday[i]}

OrdinaryRows == {i \in 1..Len(is_holiday) : ~is_holiday[i]}

SameLengthNonEmpty ==
    /\ Len(y_true) > 0
    /\ Len(y_pred) = Len(y_true)
    /\ Len(is_holiday) = Len(y_true)

\* C4: on non-empty inputs of one length calculate_wmae returns
\* sum(w_i * |y_true_i - y_pred_i|) / sum(w_i) with w_i = 5 on holiday rows and
\* 1 on the others; it is 0 when y_pred = y_true, and when all rows have the
\* same error e it is e, whichever rows are holidays.
C4_WmaeFormula ==
    (wmae_op = "wmae" /\ SameLengthNonEmpty) =>
        /\ wmae_out.kind = "value"
        /\ wmae_out.num = 5 * ErrorOver(HolidayRows) + ErrorOver(OrdinaryRows)
        /\ wmae_out.den = 5 * Cardinality(HolidayRows) + Cardinality(OrdinaryRows)
        /\ (y_pred = y_true => wmae_out.num = 0)
        /\ \A e \in 0..MaxY :
              (\A i \in 1..Len(y_true) : Abs(y_true[i] - y_pred[i]) = e)
                  => wmae_out.num = e * wmae_out.den

\* calculate_wmae has returned for two rows with different errors, one a
\* holiday row and one not.
C4_Witness ==
    /\ wmae_op = "wmae"
    /\ SameLengthNonEmpty
    /\ HolidayRows # {} /\ OrdinaryRows # {}
    /\ \E i, j \in 1..Len(y_true) :
          /\ y_true[i] < y_pred[i]
          /\ y_true[j] > y_pred[j]
          /\ Abs(y_true[i] - y_pred[i]) # Abs(y_true[j] - y_pred[j])

----------------------------------------------------------------------------
(* LightGBM boosters, as trainer.py and generate_forecasts.py use them      *)

\* A booster is [trees, best_iteration, feature_name]. A tree is a stump:
\* [feature, threshold, left, right], worth `left` on a row whose feature is
\* at most the threshold and `right` otherwise. Outputs are in cents.
TreeValue(t, X) == IF X[t.feature] <= t.threshold THEN t.left ELSE t.right

\* The iterations predict() and save_model() take when called without
\* num_iteration: best_iteration when early stopping set one, else all.
UsedIterations(b) ==
    IF b.best_iteration > 0 THEN b.best_iteration ELSE Len(b.trees)

\* Booster.predict on one row.
BoosterPredict(b, X) ==
    SumSeq([i \in 1..UsedIterations(b) |-> TreeValue(b.trees[i], X)])

\* Mutant of SaveBooster: the file holds every tree that was built, also
\* those after the best iteration.
SaveBooster_all_trees(b) ==
    [trees |-> b.trees, feature_names |-> b.feature_name]

\* Booster.save_model(path): the text file holds the used iterations.
SaveBooster(b) ==
    [trees |-> SubSeq(b.trees, 1, UsedIterations(b)),
     feature_names |-> b.feature_name]

\* lgb.Booster(model_file=path): no best iteration is known after a load.
LoadBooster(file) ==
    [trees |-> file.trees, best_iteration |-> -1,
     feature_name |-> file.feature_names]

----------------------------------------------------------------------------
(* models/generate_forecasts.py                                            *)

Max(a, b) == IF a >= b THEN a ELSE b

\* Amounts inside generate_predictions are in thousandths of a cent, so that
\* 0.15 * pred and 1.96 * std are exact; stored amounts are in cents.
UnitsPerCent == 1000

\* round(x, 2) of an amount: to the nearest cent, a tie to the even cent.
Round2(amount) ==
    LET q == amount \div UnitsPerCent
        r == amount % UnitsPerCent
    IN  IF 2 * r > UnitsPerCent \/ (2 * r = UnitsPerCent /\ q % 2 = 1)
        THEN q + 1 ELSE q

\* std_estimate = max(pred * 0.15, 100): 0.15 is 3/20, and the division
\* comes first to keep the product small (pred is a whole number of cents).
StdShare == <<3, 20>>

MinStdDollars == 100

StdEstimate(pred) ==
    Max((pred \div StdShare[2]) * StdShare[1],
        MinStdDollars * 100 * UnitsPerCent)

\* 1.96 * std_estimate: 1.96 is 49/25.
ZScore == <<49, 25>>

Margin(pred) == (StdEstimate(pred) \div ZScore[2]) * ZScore[1]

\* confidence_score, in ten-thousandths: round(0.85 - 0.02 * index, 4)
BaseConfidence == 8500

ConfidenceStep == 200

\* get_feature_columns(model): the names the booster carries.
get_feature_columns(b) == b.feature_name

DayOfYear(date) == date - YearStart(date) + 1

\* The calendar fields written for the forecast date whatever the model
\* expects.
CalendarFields(date) ==
    LET c == CivilFromDays(date)
    IN  [week_of_year     |-> IsoWeek(date),
         month            |-> c.month,
         quarter          |-> (c.month - 1) \div 3 + 1,
         is_month_start   |-> IF c.day <= 7 THEN 1 ELSE 0,
         is_month_end     |-> IF c.day >= 24 THEN 1 ELSE 0,
         is_quarter_start |-> IF c.month \in {1, 4, 7, 10} THEN 1 ELSE 0,
         is_quarter_end   |-> IF c.month \in {3, 6, 9, 12} THEN 1 ELSE 0]

\* The calendar fields written only when the model expects them.
ExpectedFields(date, feature_cols) ==
    LET c == CivilFromDays(date)
    IN  [n \in {"year", "day_of_week", "day_of_month", "day_of_year"}
                  \cap Range(feature_cols) |->
            CASE n = "year"         -> c.year
              [] n = "day_of_week"  -> Weekday(date)
              [] n = "day_of_month" -> c.day
              [] n = "day_of_year"  -> DayOfYear(date)]

\* Mutant of FeatureVector: the lag is not carried over from the base row but
\* left null for the future week.
FeatureVector_lag_reset(row, date, feature_cols) ==
    LET feature_row ==
            [sales_lag_1 |-> NaN] @@ CalendarFields(date)
                @@ ExpectedFields(date, feature_cols) @@ row
    IN  [c \in Range(feature_cols) |->
            IF c \in DOMAIN feature_row THEN feature_row[c] ELSE 0]

\* The one-row frame X handed to the model: the base row with the calendar
\* fields of the forecast date, cut to the model's columns, a column the row
\* lacks being 0.
FeatureVector(row, date, feature_cols) ==
    LET feature_row ==
            CalendarFields(date) @@ ExpectedFields(date, feature_cols) @@ row
    IN  [c \in Range(feature_cols) |->
            IF c \in DOMAIN feature_row THEN feature_row[c] ELSE 0]

\* Mutant of PredictSales: the raw prediction, without max(pred, 0).
PredictSales_raw(b, X) == BoosterPredict(b, X) * UnitsPerCent

\* pred = model.predict(X)[0]; pred = max(pred, 0)
PredictSales(b, X) == Max(BoosterPredict(b, X) * UnitsPerCent, 0)

\* Mutant of ForecastRow: the confidence score rises with the index.
ForecastRow_rising(b, row, date, index) ==
    LET pred == PredictSales(b, FeatureVector(row, date, get_feature_columns(b)))
    IN  [store_id         |-> row.store_id,
         dept_id          |-> row.dept_id,
         forecast_date    |-> date,
         predicted_sales  |-> Round2(pred),
         prediction_lower |-> Round2(Max(pred - Margin(pred), 0)),
         prediction_upper |-> Round2(pred + Margin(pred)),
         model_name       |-> "lightgbm_forecaster",
         model_version    |-> "v1.0",
         confidence_score |-> BaseConfidence + ConfidenceStep * index]

\* The forecast row of one base row and one future date (index counts the
\* future dates from 0).
ForecastRow(b, row, date, index) ==
    LET pred == PredictSales(b, FeatureVector(row, date, get_feature_columns(b)))
    IN  [store_id         |-> row.store_id,
         dept_id          |-> row.dept_id,
         forecast_date    |-> date,
         predicted_sales  |-> Round2(pred),
         prediction_lower |-> Round2(Max(pred - Margin(pred), 0)),
         prediction_upper |-> Round2(pred + Margin(pred)),
         model_name       |-> "lightgbm_forecaster",
         model_version    |-> "v1.0",
         confidence_score |-> BaseConfidence - ConfidenceStep * index]

\* The future dates: one per week after the latest feature_date of the frame.
FutureDates(df, forecast_weeks) ==
    LET last_date == MaxOf({df[i].feature_date : i \in 1..Len(df)})
    IN  [w \in 1..forecast_weeks |-> last_date + DaysPerWeek * w]

generate_predictions(b, df, forecast_weeks) ==
    LET future_dates == FutureDates(df, forecast_weeks)
    IN  Flatten([i \in 1..Len(df) |->
                    [w \in 1..forecast_weeks |->
                        ForecastRow(b, df[i], future_dates[w], w - 1)]])

\* write_forecasts, first statement: DELETE FROM forecasts, committed.
DeleteForecasts(table) == <<>>

\* write_forecasts, second statement: to_sql(if_exists='append') adds the
\* frame's rows in one transaction.
AppendForecasts(table, df) == table \o df

\* load_forecasts of the dashboard: the rows of SELECT ... FROM forecasts.
load_forecasts(table) == Range(table)

----------------------------------------------------------------------------
(* The inputs of forecast generation                                       *)

MaxForecastWeeks == 2   \* forecast_weeks is 1..MaxForecastWeeks

\* The weeks main() asks for.
MainForecastWeeks == 8

\* The feature columns of a model trained on the engineered_features table,
\* and of one trained on the default list of get_feature_columns.
TableFeatureCols ==
    <<"week_of_year", "month", "quarter", "is_month_start", "is_month_end",
      "is_holiday", "sales_lag_1">>

FallbackCols ==
    <<"week_of_year", "month", "quarter", "year", "day_of_week",
      "day_of_month", "day_of_year", "is_month_start", "is_month_end",
      "is_quarter_start", "is_quarter_end", "sales_lag_1", "store_type_A",
      "is_holiday">>

\* Stumps: January is worth -500.00 and later months 300.00; the first
\* three weeks of the year 20.00 and later weeks 600.00.
StumpMonth ==
    [feature |-> "month", threshold |-> 1, left |-> -50000, right |-> 30000]

StumpWeek ==
    [feature |-> "week_of_year", threshold |-> 3, left |-> 2000, right |-> 60000]

\* The boosters a forecast run loads from the model file.
ForecastBoosters ==
    {LoadBooster([trees |-> ts, feature_names |-> cols]) :
        ts \in {<<StumpMonth>>, <<StumpWeek>>, <<StumpMonth, StumpWeek>>},
        cols \in {TableFeatureCols, FallbackCols}}

\* An engineered_features row of a series: the sales row with its calendar
\* features and its first lag.
BaseRow(store, dept, date) ==
    RenameDate(create_temporal_features(<<SalesRow(store, dept, date)>>)[1])
        @@ [sales_lag_1 |->
               IF date > FirstDate
               THEN Some(SalesRow(store, dept, date - DaysPerWeek).weekly_sales)
               ELSE NaN]

\* The series, in the order of ORDER BY store_id, dept_id.
SeriesOrder == <<<<1, 1>>, <<1, 2>>, <<2, 1>>, <<2, 2>>>>

\* What load_latest_features returns: for the series that have rows, the row
\* of the series' own latest date. Never empty here: main() stops on an
\* empty frame before it calls generate_predictions.
LatestFrames ==
    {Flatten([i \in 1..Len(SeriesOrder) |->
                IF a[i] = 0 THEN <<>>
                ELSE <<BaseRow(SeriesOrder[i][1], SeriesOrder[i][2], a[i])>>]) :
        a \in [1..Len(SeriesOrder) -> Dates \cup {0}]} \ {<<>>}

----------------------------------------------------------------------------
(* Specification of generate_predictions                                   *)

InitPredict ==
    /\ fc_features \in LatestFrames
    /\ fc_model \in {Some(b) : b \in ForecastBoosters}
    /\ fc_weeks \in 1..MaxForecastWeeks
    /\ forecasts = <<>>
    /\ forecast_df = <<>>
    /\ fc_pc = "idle"
    /\ fc_result = "none"
    /\ prev_forecasts = <<>>
    /\ seen = NotSeen
    /\ IdleOutsideForecast

\* generate_predictions(model, features_df, forecast_weeks)
GeneratePredictions ==
    /\ fc_pc = "idle"
    /\ forecast_df' = generate_predictions(Val(fc_model), fc_features, fc_weeks)
    /\ fc_pc' = "write"
    /\ UNCHANGED <<fcInputs, forecasts, fc_result, prev_forecasts, seen,
                   OutsideForecast>>

NextPredict ==
    \/ GeneratePredictions

SpecPredict == InitPredict /\ [][NextPredict]_vars

\* C5: every row generate_predictions produces has predicted_sales >= 0 and
\* prediction_lower >= 0, whatever the model returns, negative raw
\* predictions included.
C5_NonNegativeForecasts ==
    \A i \in 1..Len(forecast_df) :
        /\ forecast_df[i].predicted_sales >= 0
        /\ forecast_df[i].prediction_lower >= 0

\* The raw prediction of the model for base row i and week w of the run.
RawPrediction(i, w) ==
    BoosterPredict(Val(fc_model),
                   FeatureVector(fc_features[i],
                                 FutureDates(fc_features, fc_weeks)[w],
                                 get_feature_columns(Val(fc_model))))

\* A frame was generated from a model that returned a negative prediction
\* for one row and a positive one below the margin for another.
C5_Witness ==
    /\ fc_pc = "write"
    /\ \E i \in 1..Len(fc_features), w \in 1..fc_weeks : RawPrediction(i, w) < 0
    /\ \E i \in 1..Len(forecast_df) :
          /\ forecast_df[i].predicted_sales > 0
          /\ forecast_df[i].prediction_lower = 0


----------------------------------------------------------------------------
(* Specification of the forecast runs (generate_forecasts.py main) and of   *)
(* the dashboard that reads the forecasts table                             *)

\* The frames load_latest_features returns to the runs: no series, one, two.
RunFrames ==
    LET last == MaxOf(Dates)
    IN  {<<>>,
         <<BaseRow(1, 1, last)>>,
         <<BaseRow(1, 1, last - DaysPerWeek), BaseRow(2, 1, last)>>}

\* The model files the runs find.
RunBoosters ==
    {LoadBooster([trees |-> ts, feature_names |-> TableFeatureCols]) :
        ts \in {<<StumpWeek>>, <<StumpMonth, StumpWeek>>}}

InitForecast ==
    /\ IdleForecast
    /\ IdleOutsideForecast

\* main(), steps 2 and 3: the model and the latest features are loaded and
\* the forecast frame is generated.
GenerateForecasts ==
    /\ fc_pc = "idle"
    /\ \E b \in RunBoosters, f \in RunFrames \ {<<>>} :
          /\ fc_model' = Some(b)
          /\ fc_features' = f
          /\ forecast_df' = generate_predictions(b, f, MainForecastWeeks)
    /\ fc_weeks' = MainForecastWeeks
    /\ fc_pc' = "write"
    /\ fc_result' = "running"
    /\ UNCHANGED <<forecasts, prev_forecasts, seen, OutsideForecast>>

\* main(), step 3 on an empty feature frame: an error is logged and main
\* returns.
MainNoFeatures ==
    /\ fc_pc = "idle"
    /\ \E b \in RunBoosters : fc_model' = Some(b)
    /\ fc_features' = <<>>
    /\ forecast_df' = <<>>
    /\ fc_weeks' = 0
    /\ fc_result' = "no_features"
    /\ UNCHANGED <<forecasts, fc_pc, prev_forecasts, seen, OutsideForecast>>

\* main(), step 2 with no model file and no MLflow version: load_model
\* raises FileNotFoundError, which leaves main().
MainNoModel ==
    /\ fc_pc = "idle"
    /\ fc_model' = NaN
    /\ fc_features' = <<>>
    /\ forecast_df' = <<>>
    /\ fc_weeks' = 0
    /\ prev_forecasts' = forecasts
    /\ fc_result' = "failed"
    /\ UNCHANGED <<forecasts, fc_pc, seen, OutsideForecast>>

\* write_forecasts: DELETE FROM forecasts and conn.commit().
WriteDelete ==
    /\ fc_pc = "write"
    /\ prev_forecasts' = forecasts
    /\ forecasts' = DeleteForecasts(forecasts)
    /\ fc_pc' = "insert"
    /\ UNCHANGED <<fcInputs, forecast_df, fc_result, seen, OutsideForecast>>

\* write_forecasts: the DELETE raises (the connection is lost); nothing is
\* committed and the exception leaves main().
WriteDeleteFails ==
    /\ fc_pc = "write"
    /\ prev_forecasts' = forecasts
    /\ fc_pc' = "idle"
    /\ fc_result' = "failed"
    /\ UNCHANGED <<fcInputs, forecasts, forecast_df, seen, OutsideForecast>>

\* write_forecasts: forecast_df.to_sql(..., if_exists='append') commits.
WriteInsert ==
    /\ fc_pc = "insert"
    /\ forecasts' = AppendForecasts(forecasts, forecast_df)
    /\ fc_pc' = "idle"
    /\ fc_result' = "ok"
    /\ UNCHANGED <<fcInputs, forecast_df, prev_forecasts, seen, OutsideForecast>>

\* write_forecasts: to_sql raises; its transaction is rolled back and the
\* exception leaves main(). The DELETE was committed before.
WriteInsertFails ==
    /\ fc_pc = "insert"
    /\ fc_pc' = "idle"
    /\ fc_result' = "failed"
    /\ UNCHANGED <<fcInputs, forecasts, forecast_df, prev_forecasts, seen,
                   OutsideForecast>>

\* The dashboard's load_forecasts, at any moment.
ReadForecasts ==
    /\ seen' = [during |-> fc_pc = "insert", rows |-> load_forecasts(forecasts)]
    /\ UNCHANGED <<fcInputs, forecasts, forecast_df, fc_pc, fc_result,
                   prev_forecasts, OutsideForecast>>

NextForecast ==
    \/ GenerateForecasts
    \/ MainNoFeatures
    \/ MainNoModel
    \/ WriteDelete
    \/ WriteDeleteFails
    \/ WriteInsert
    \/ WriteInsertFails
    \/ ReadForecasts

SpecForecast == InitForecast /\ [][NextForecast]_vars

\* C6: a reader of the forecasts table while write_forecasts runs gets the
\* complete previous generation or the complete new one, never an empty or
\* partly written table.
C6_ReaderSeesWholeGeneration ==
    [][(ReadForecasts /\ fc_pc = "insert") =>
          seen'.rows \in {Range(prev_forecasts), Range(forecast_df)}]_vars

\* C7: a run whose write_forecasts fails leaves the complete previous
\* generation in the table; a run that succeeds leaves exactly the new
\* generation.
C7_AllOrNothing ==
    /\ fc_result = "failed" => forecasts = prev_forecasts
    /\ fc_result = "ok" => forecasts = forecast_df

----------------------------------------------------------------------------
(* models/trainer.py: the forecaster object; models/train.py: main          *)

\* X = df[feature_cols] of prepare_data, one row.
prepare_X(row, feature_cols) == [c \in Range(feature_cols) |-> row[c]]

\* Where a call of train can raise: nowhere; before or in lgb.train; in the
\* MLflow logging that follows the fit; in _save_model_metadata.
TrainFaults == {"none", "fit", "mlflow", "metadata"}

\* train(train_df, val_df) on a forecaster whose model is m, when lgb.train
\* would return booster b: prepare_data sets feature_names first, self.model
\* is assigned as soon as lgb.train returns, and no later statement is
\* inside a try block.
train(m, b, fault) ==
    [model         |-> IF fault = "fit" THEN m ELSE Some(b),
     feature_names |-> Some(b.feature_name),
     rows          |-> IF fault = "none" THEN 1 ELSE 0,
     outcome       |-> IF fault = "none" THEN "metrics" ELSE "raised"]

\* Mutant of predict: without the check of self.model, None.predict raises
\* AttributeError.
predict_unguarded(m, X) ==
    IF IsNull(m) THEN [outcome |-> "AttributeError", value |-> 0]
    ELSE [outcome |-> "ok", value |-> BoosterPredict(Val(m), X)]

\* predict(X)
predict(m, X) ==
    IF IsNull(m) THEN [outcome |-> "ValueError", value |-> 0]
    ELSE [outcome |-> "ok", value |-> BoosterPredict(Val(m), X)]

\* save_model(path): the outcome and the file at path afterwards.
save_model(m, file) ==
    IF IsNull(m) THEN [outcome |-> "ValueError", file |-> file]
    ELSE [outcome |-> "ok", file |-> Some(SaveBooster(Val(m)))]

\* load_model(path): the outcome and self.model afterwards; lgb.Booster
\* raises when there is no file, before self.model is assigned.
load_model(m, file) ==
    IF IsNull(file) THEN [outcome |-> "LightGBMError", model |-> m]
    ELSE [outcome |-> "ok", model |-> Some(LoadBooster(Val(file)))]

----------------------------------------------------------------------------
(* Specification of the forecaster                                         *)

MaxTrees == 2       \* boosting rounds of a fit
MaxRuns == 2        \* rows of model_metadata

\* The trees of a fit, round by round: the two stumps in turn, either first.
FittedTrees(first, n) ==
    [i \in 1..n |-> IF i % 2 = 1 THEN first
                    ELSE CHOOSE t \in {StumpMonth, StumpWeek} : t # first]

\* The boosters lgb.train returns: n rounds were run and early stopping
\* found round b the best.
TrainedBoosters ==
    UNION {{[trees          |-> FittedTrees(first, n),
             best_iteration |-> b,
             feature_name   |-> TableFeatureCols] :
                b \in 1..n, first \in {StumpMonth, StumpWeek}} :
           n \in 1..MaxTrees}

\* The rows predict is called on: the first week of January and the first
\* of February.
SampleInputs ==
    {prepare_X(BaseRow(1, 1, d), TableFeatureCols) :
        d \in {FirstDate, FirstDate + 4 * DaysPerWeek}}

Call(op, outcome, fault, value) ==
    [op |-> op, outcome |-> outcome, fault |-> fault, value |-> value]

InitTrainer ==
    /\ IdleTrainer
    /\ IdleOutsideTrainer

\* WalmartForecaster(config_path): a new object; files and tables stay.
NewForecaster ==
    /\ model' = NaN
    /\ feature_names' = NaN
    /\ completed' = FALSE
    /\ tr_call' = Call("init", "ok", "none", 0)
    /\ UNCHANGED <<model_file, model_metadata, saved_model, OutsideTrainer>>

\* forecaster.train(train_df, val_df)
Train ==
    /\ model_metadata < MaxRuns
    /\ \E b \in TrainedBoosters, fault \in TrainFaults :
          LET r == train(model, b, fault)
          IN  /\ model' = r.model
              /\ feature_names' = r.feature_names
              /\ model_metadata' = model_metadata + r.rows
              /\ tr_call' = Call("train", r.outcome, fault, 0)
              /\ completed' = (completed \/ r.outcome = "metrics")
    /\ UNCHANGED <<model_file, saved_model, OutsideTrainer>>

\* forecaster.predict(X)
Predict ==
    /\ \E X \in SampleInputs :
          LET r == predict(model, X)
          IN  tr_call' = Call("predict", r.outcome, "none", r.value)
    /\ UNCHANGED <<model, feature_names, model_file, model_metadata,
                   saved_model, completed, OutsideTrainer>>

\* forecaster.save_model(path)
SaveModel ==
    /\ LET r == save_model(model, model_file)
       IN  /\ model_file' = r.file
           /\ saved_model' = IF r.outcome = "ok" THEN model ELSE saved_model
           /\ tr_call' = Call("save_model", r.outcome, "none", 0)
    /\ UNCHANGED <<model, feature_names, model_metadata, completed,
                   OutsideTrainer>>

\* forecaster.load_model(path)
LoadModel ==
    /\ LET r == load_model(model, model_file)
       IN  /\ model' = r.model
           /\ tr_call' = Call("load_model", r.outcome, "none", 0)
           /\ completed' = (completed \/ r.outcome = "ok")
    /\ UNCHANGED <<feature_names, model_file, model_metadata, saved_model,
                   OutsideTrainer>>

\* train.py main(), steps 4 and 5: a new forecaster is trained and, when
\* train returns, saved; an exception of train leaves main at once.
TrainMain ==
    /\ model_metadata < MaxRuns
    /\ \E b \in TrainedBoosters, fault \in TrainFaults :
          LET r == train(NaN, b, fault)
              s == save_model(r.model, model_file)
              returned == r.outcome = "metrics"
          IN  /\ model' = r.model
              /\ feature_names' = r.feature_names
              /\ model_metadata' = model_metadata + r.rows
              /\ model_file' = IF returned THEN s.file ELSE model_file
              /\ saved_model' = IF returned THEN r.model ELSE saved_model
              /\ tr_call' = Call("main", IF returned THEN s.outcome ELSE "raised",
                                 fault, 0)
              /\ completed' = returned
    /\ UNCHANGED OutsideTrainer

NextTrainer ==
    \/ NewForecaster
    \/ Train
    \/ Predict
    \/ SaveModel
    \/ LoadModel
    \/ TrainMain

SpecTrainer == InitTrainer /\ [][NextTrainer]_vars

----------------------------------------------------------------------------
(* Properties of the forecaster                                            *)

\* C8: when persisting the model_metadata record fails after the fit, train
\* does not raise: it returns the metrics and keeps the fitted model, and
\* main goes on to save the model file.
C8_MetadataFailureNotRaised ==
    (tr_call.op \in {"train", "main"} /\ tr_call.fault = "metadata") =>
        /\ tr_call.outcome \in {"metrics", "ok"}
        /\ ~IsNull(model)
        /\ tr_call.op = "main" => model_file = Some(SaveBooster(Val(model)))

\* The state predict and save_model must leave alone when they raise.
forecasterState == <<model, feature_names, model_file, model_metadata>>

\* C9, as amended: on a forecaster whose model is unset (no train has got as
\* far as the fit and no load_model has returned), predict and save_model
\* raise ValueError, write no file and leave the forecaster's state
\* unchanged; they succeed only when a model is present.
C9_RaisesWhenModelUnset ==
    [][tr_call'.op \in {"predict", "save_model"} =>
          /\ IsNull(model) =>
                /\ tr_call'.outcome = "ValueError"
                /\ UNCHANGED forecasterState
          /\ tr_call'.outcome = "ok" => ~IsNull(model)]_vars

\* save_model raised on a forecaster on which a train had failed before the
\* fit, with a model file of an earlier forecaster on disk.
C9_Witness ==
    /\ tr_call.op = "save_model"
    /\ tr_call.outcome = "ValueError"
    /\ IsNull(model)
    /\ ~IsNull(feature_names)
    /\ ~IsNull(model_file)

\* C9, as stated: on a forecaster on which neither train nor load_model has
\* completed, predict and save_model raise ValueError, write no file and
\* leave the forecaster's state unchanged; they succeed only when a model is
\* present.
C9_RaisesUnlessCompleted ==
    [][tr_call'.op \in {"predict", "save_model"} =>
          /\ ~completed =>
                /\ tr_call'.outcome = "ValueError"
                /\ UNCHANGED forecasterState
          /\ tr_call'.outcome = "ok" => ~IsNull(model)]_vars

\* C10: a model loaded from the file save_model wrote predicts, on every
\* input, what the in-memory model predicted when it was saved.
C10_SaveLoadRoundTrip ==
    (tr_call.op = "load_model" /\ tr_call.outcome = "ok") =>
        \A X \in SampleInputs :
            BoosterPredict(Val(model), X) = BoosterPredict(Val(saved_model), X)

\* A model was loaded from the file of a booster that early stopping had cut
\* short, and the trees after its best iteration would change a prediction.
C10_Witness ==
    /\ tr_call.op = "load_model"
    /\ tr_call.outcome = "ok"
    /\ Val(saved_model).best_iteration < Len(Val(saved_model).trees)
    /\ \E X \in SampleInputs :
          BoosterPredict(Val(saved_model), X) #
              BoosterPredict([Val(saved_model) EXCEPT !.best_iteration = -1], X)

\* C11: after save_model and load_model on a new forecaster, the forecaster's
\* ordered feature-name list is the list used at training time.
C11_FeatureNamesRestored ==
    (tr_call.op = "load_model" /\ tr_call.outcome = "ok") =>
        feature_names = Some(Val(saved_model).feature_name)

----------------------------------------------------------------------------
(* Specification of the split followed by the fit (train.py main, step 4)   *)

\* lgb.train on a frame without rows raises when it builds the Dataset, so
\* an empty training frame is a failure in the fit whatever else would fail.
FitFault(df, fault) == IF df = <<>> THEN "fit" ELSE fault

InitSplitTrain == InitSplit

\* forecaster.train(train_df, val_df) on the two parts of the split, on a
\* new forecaster.
TrainOnSplit ==
    /\ split_op = "split"
    /\ tr_call = NoCall
    /\ \E b \in TrainedBoosters, fault \in TrainFaults :
          LET f == FitFault(train_df, fault)
              r == train(model, b, f)
          IN  /\ model' = r.model
              /\ feature_names' = r.feature_names
              /\ model_metadata' = model_metadata + r.rows
              /\ tr_call' = Call("train", r.outcome, f, 0)
              /\ completed' = (r.outcome = "metrics")
    /\ UNCHANGED <<model_file, saved_model, splitVars, feVars, wmaeVars, fcVars,
                   fitVars, efVars>>

NextSplitTrain ==
    \/ CreateTrainValSplit
    \/ TrainOnSplit

SpecSplitTrain == InitSplitTrain /\ [][NextSplitTrain]_vars

\* C12: with an empty training part the split-then-train sequence fails:
\* create_train_val_split does not return an empty training part as a normal
\* result, and train raises before a model is fitted or metadata written.
C12_EmptyTrainFails ==
    /\ split_op = "split" => train_df # <<>>
    /\ (tr_call.op = "train" /\ train_df = <<>>) =>
          /\ tr_call.outcome = "raised"
          /\ IsNull(model)
          /\ model_metadata = 0

----------------------------------------------------------------------------
(* Properties of the weighted error on inputs outside its precondition     *)

SameLength ==
    /\ Len(y_pred) = Len(y_true)
    /\ Len(is_holiday) = Len(y_true)

\* C13: calculate_wmae raises ValueError, and returns no value, whenever the
\* three arguments do not all have the same length.
C13_LengthMismatchRaises ==
    (wmae_op = "wmae" /\ ~SameLength) => wmae_out.kind = "ValueError"

\* C14: on empty inputs calculate_wmae fails with an explicit error; it
\* returns neither NaN nor a number.
C14_EmptyInputRaises ==
    (wmae_op = "wmae" /\ y_true = <<>> /\ y_pred = <<>> /\ is_holiday = <<>>) =>
        wmae_out.kind \notin {"nan", "value"}

----------------------------------------------------------------------------
(* Specification of the fit with early stopping (trainer.py train)          *)

\* The metric named in the model parameters; lgb.train is given no feval, so
\* this built-in metric is the only one evaluated on the valid_sets.
ConfigMetric == "mae"

\* y and is_holiday of prepare_data, per row of a frame.
LabelsOf(df) == [i \in 1..Len(df) |-> df[i].weekly_sales]

HolidaysOf(df) == [i \in 1..Len(df) |-> df[i].is_holiday]

\* The predictions of the first k trees on the rows of a frame.
RoundPredictions(ts, k, df) ==
    [i \in 1..Len(df) |->
        SumSeq([j \in 1..k |->
                   TreeValue(ts[j], prepare_X(df[i], TableFeatureCols))])]

\* LightGBM's built-in mean absolute error of a Dataset without weights, as a
\* fraction.
BuiltinMae(yt, yp) ==
    WmaeValue(SumSeq([i \in 1..Len(yt) |-> Abs(yt[i] - yp[i])]), Len(yt))

\* The score of round k on a frame under a metric.
RoundScore(metric, ts, k, df) ==
    IF metric = "mae"
    THEN BuiltinMae(LabelsOf(df), RoundPredictions(ts, k, df))
    ELSE calculate_wmae(LabelsOf(df), RoundPredictions(ts, k, df), HolidaysOf(df))

\* Score a is strictly lower than score b.
LowerScore(a, b) == a.num * b.den < b.num * a.den

\* The round the early_stopping callback keeps as best: the first round that
\* no round improves on (all rounds are run when the patience is longer than
\* the number of rounds).
BestRound(metric, ts, df) ==
    MinOf({k \in 1..Len(ts) :
              \A j \in 1..Len(ts) :
                  ~LowerScore(RoundScore(metric, ts, j, df),
                              RoundScore(metric, ts, k, df))})

\* best_iteration after lgb.train. With validation rows the callback follows
\* the metric on them and skips the training set. With the training set
\* alone the outcome depends on the LightGBM release: the best round on the
\* training rows, or early stopping disabled and no best iteration (0).
EarlyStopOutcomes(ts, tr, va, with_val) ==
    IF with_val THEN {BestRound(ConfigMetric, ts, va)}
    ELSE {BestRound(ConfigMetric, ts, tr), 0}

\* A row of a training or validation frame.
FitRow(date, sales, holiday) ==
    [weekly_sales |-> sales, is_holiday |-> holiday] @@ BaseRow(1, 1, date)

FitRows ==
    {FitRow(d, y, h) : d \in {FirstDate, FirstDate + 4 * DaysPerWeek},
                       y \in {-48000, 30000, 58000}, h \in BOOLEAN}

\* The frames handed to train: training frames of one row, validation
\* frames of one or two.
FitTrainFrames == {<<r>> : r \in FitRows}

FitValFrames == FitTrainFrames \cup {<<r, s>> : r \in FitRows, s \in FitRows}

\* The trees the rounds of a fit build.
FitTrees ==
    {FittedTrees(first, n) : first \in {StumpMonth, StumpWeek}, n \in 1..MaxTrees}

InitFit ==
    /\ train_df \in FitTrainFrames
    /\ has_val \in BOOLEAN
    /\ val_df \in (IF has_val THEN FitValFrames ELSE {<<>>})
    /\ split_df = <<>>
    /\ split_op = "none"
    /\ val_weeks = 0
    /\ IdleTrainer
    /\ IdleFE /\ IdleWmae /\ IdleForecast /\ IdleTable

\* forecaster.train(train_df, val_df) or forecaster.train(train_df)
TrainEarlyStopping ==
    /\ tr_call = NoCall
    /\ \E ts \in FitTrees, fault \in TrainFaults :
       \E best \in EarlyStopOutcomes(ts, train_df, val_df, has_val) :
          LET b == [trees |-> ts, best_iteration |-> best,
                    feature_name |-> TableFeatureCols]
              r == train(model, b, fault)
          IN  /\ model' = r.model
              /\ feature_names' = r.feature_names
              /\ model_metadata' = model_metadata + r.rows
              /\ tr_call' = Call("train", r.outcome, fault, 0)
              /\ completed' = (r.outcome = "metrics")
    /\ UNCHANGED <<model_file, saved_model, splitVars, feVars, wmaeVars, fcVars,
                   fitVars, efVars>>

NextFit ==
    \/ TrainEarlyStopping

SpecFit == InitFit /\ [][NextFit]_vars

\* The rows the claim has early stopping watch.
MonitoredRows == IF has_val THEN val_df ELSE train_df

\* C15: the metric train monitors for early stopping is the holiday-weighted
\* error (weight 5 on holiday rows), on the validation rows when they are
\* supplied and on the training rows otherwise: the best iteration is the
\* first round with the lowest WMAE on those rows.
C15_EarlyStoppingOnWmae ==
    (tr_call.op = "train" /\ ~IsNull(model)) =>
        Val(model).best_iteration =
            BestRound("wmae", Val(model).trees, MonitoredRows)

----------------------------------------------------------------------------
(* Specification of the builders on frames in any row order                *)

\* The window lists create_rolling_features is called with: the pipeline's,
\* the tests' [4], and lists whose smallest window is not 4.
WindowSets == {{4, 13, 52}, {4}, {2, 4}, {2, 8}}

\* create_rolling_features(sales_df, windows)
CreateRollingFeatures ==
    /\ fe_op = "none"
    /\ \E windows \in WindowSets :
          fe_out' = create_rolling_features(sales_df, windows)
    /\ fe_op' = "create_rolling_features"
    /\ UNCHANGED <<sales_df, features_df, stores_df, OutsideFE>>

\* create_economic_features on the sales frame merged with the indicators, the
\* frame engineer_features builds before it calls the builders.
CreateEconomicFeatures ==
    /\ fe_op = "none"
    /\ \E f \in FeatureFrames :
          /\ features_df' = f
          /\ fe_out' = create_economic_features(MergeIndicators(sales_df, f))
    /\ fe_op' = "create_economic_features"
    /\ UNCHANGED <<sales_df, stores_df, OutsideFE>>

InitShuffle == InitFE

NextShuffle ==
    \/ CreateLagFeatures
    \/ CreateRollingFeatures
    \/ CreateEconomicFeatures
    \/ EngineerFeatures

SpecShuffle == InitShuffle /\ [][NextShuffle]_vars

\* Every row order of a frame.
PermutationsOf(s) ==
    {[i \in 1..Len(s) |-> s[p[i]]] :
        p \in {p \in [1..Len(s) -> 1..Len(s)] :
                  \A i, j \in 1..Len(s) : i # j => p[i] # p[j]}}

Reverse(s) == [i \in 1..Len(s) |-> s[Len(s) + 1 - i]]

\* A frame with the rows i and i + 1 exchanged.
SwapRows(s, i) ==
    [j \in 1..Len(s) |-> IF j = i THEN s[i + 1] ELSE IF j = i + 1 THEN s[i] ELSE s[j]]

\* Row orders of the indicator frame: as is, reversed, and with two
\* neighbours exchanged.
Shuffles(s) == {s, Reverse(s)} \cup {SwapRows(s, i) : i \in 1..(Len(s) - 1)}

\* The rows of a frame as a set; a row carries its (store_id, dept_id, date).
RowSet(df) == Range(df)

C16_LagOrderFree ==
    fe_op = "create_lag_features" =>
        \A p \in PermutationsOf(sales_df) : \E lags \in LagSets :
            RowSet(create_lag_features(p, lags)) = RowSet(fe_out)

C16_RollingOrderFree ==
    fe_op = "create_rolling_features" =>
        \A p \in PermutationsOf(sales_df) : \E windows \in WindowSets :
            RowSet(create_rolling_features(p, windows)) = RowSet(fe_out)

C16_EconomicOrderFree ==
    fe_op = "create_economic_features" =>
        \A p \in PermutationsOf(sales_df) :
            RowSet(create_economic_features(MergeIndicators(p, features_df)))
                = RowSet(fe_out)

C16_PipelineOrderFree ==
    fe_op = "engineer_features" =>
        \A p \in PermutationsOf(sales_df), q \in Shuffles(features_df) :
            RowSet(engineer_features(p, q, stores_df)) = RowSet(fe_out)

\* C16: the rows engineer_features returns, as a set keyed by (store_id,
\* dept_id, date), are the same for every row order of the sales frame and of
\* the indicator frame, and each of the lag, rolling and economic builders
\* returns the same rows for every row order of the frame it is passed.
C16_RowOrderIrrelevant ==
    /\ C16_PipelineOrderFree
    /\ C16_LagOrderFree
    /\ C16_RollingOrderFree
    /\ C16_EconomicOrderFree

----------------------------------------------------------------------------
(* Specification of create_rolling_features                                *)

InitRolling == InitFE

NextRolling ==
    \/ CreateRollingFeatures

SpecRolling == InitRolling /\ [][NextRolling]_vars

\* The rows of the sales frame in the partition of r that are the last w up
\* to and including r, by date.
LastRows(r, w) ==
    {i \in 1..Len(sales_df) :
        /\ SeriesKey(sales_df[i]) = SeriesKey(r)
        /\ sales_df[i].date <= r.date
        /\ Cardinality({n \in 1..Len(sales_df) :
                /\ SeriesKey(sales_df[n]) = SeriesKey(r)
                /\ sales_df[n].date > sales_df[i].date
                /\ sales_df[n].date <= r.date}) < w}

RECURSIVE SumSales(_)
SumSales(idx) ==
    IF idx = {} THEN 0
    ELSE LET i == CHOOSE i \in idx : TRUE
         IN  sales_df[i].weekly_sales + SumSales(idx \ {i})

\* C17: rolling_mean_w on the i-th row (from 0, by date) of a (store_id,
\* dept_id) partition is the mean of the last min(w, i + 1) weekly_sales of
\* that partition up to and including the row; on the first row of a
\* partition the mean is the row's own value and rolling_std_w is null.
C17_RollingMeanAndStd ==
    fe_op = "create_rolling_features" =>
        /\ Len(fe_out) = Len(sales_df)
        /\ \A j \in 1..Len(fe_out) : \A w \in DOMAIN fe_out[j].rolling_mean :
              LET r == fe_out[j]
                  i == Cardinality(Earlier(r))
                  n == IF w < i + 1 THEN w ELSE i + 1
              IN  /\ Cardinality(LastRows(r, w)) = n
                  /\ r.rolling_mean[w] = <<SumSales(LastRows(r, w)), n>>
                  /\ i = 0 => /\ r.rolling_mean[w] = <<r.weekly_sales, 1>>
                              /\ IsNull(r.rolling_std[w])

\* create_rolling_features has run on a frame out of order that holds a
\* partition of three rows, with a window of 2: the third row's window is
\* shorter than the partition, the first row's is the row alone.
C17_Witness ==
    /\ fe_op = "create_rolling_features"
    /\ \E a, b \in 1..Len(sales_df) :
          a < b /\ LexLess(KeyStoreDeptDate(sales_df[b]), KeyStoreDeptDate(sales_df[a]))
    /\ \E j \in 1..Len(fe_out) :
          /\ 2 \in DOMAIN fe_out[j].rolling_mean
          /\ Cardinality(Earlier(fe_out[j])) = 2
          /\ fe_out[j].rolling_mean[2][2] = 2
    /\ \E j \in 1..Len(fe_out) :
          /\ Cardinality(Earlier(fe_out[j])) = 0
          /\ IsNull(fe_out[j].rolling_std[2])

\* C18: for every window list W, create_rolling_features adds rolling_min_w
\* and rolling_max_w for w = min(W), the smallest window of the list, and for
\* no other window.
C18_MinMaxForSmallestWindow ==
    fe_op = "create_rolling_features" =>
        \A j \in 1..Len(fe_out) :
            LET W == DOMAIN fe_out[j].rolling_mean
            IN  /\ DOMAIN fe_out[j].rolling_min = {MinOf(W)}
                /\ DOMAIN fe_out[j].rolling_max = {MinOf(W)}

----------------------------------------------------------------------------
(* Properties of the economic and markdown builders                        *)

\* The indicator row of a store on a date, or null cells when there is none.
IndicatorOn(store, date) ==
    IF \E i \in 1..Len(features_df) :
          features_df[i].store_id = store /\ features_df[i].date = date
    THEN features_df[CHOOSE i \in 1..Len(features_df) :
             features_df[i].store_id = store /\ features_df[i].date = date]
    ELSE NoIndicators

\* The dates of the store of r in the sales frame before the date of r.
EarlierDates(r) ==
    {sales_df[i].date : i \in {i \in 1..Len(sales_df) :
        sales_df[i].store_id = r.store_id /\ sales_df[i].date < r.feature_date}}

Delta(cur, prev) ==
    IF IsNull(cur) \/ IsNull(prev) THEN NaN ELSE Some(Val(cur) - Val(prev))

\* C19: in the output of engineer_features, fuel_price_change, cpi_change and
\* unemployment_change of every row are the store's indicator value on the
\* row's date minus the store's value on its previous date, and null on the
\* store's first date, on the rows of every department of the store.
C19_ChangePerStoreDate ==
    fe_op = "engineer_features" =>
        \A j \in 1..Len(fe_out) :
            LET r == fe_out[j]
            IN  IF EarlierDates(r) = {}
                THEN /\ IsNull(r.fuel_price_change)
                     /\ IsNull(r.cpi_change)
                     /\ IsNull(r.unemployment_change)
                ELSE LET cur  == IndicatorOn(r.store_id, r.feature_date)
                         prev == IndicatorOn(r.store_id, MaxOf(EarlierDates(r)))
                     IN  /\ r.fuel_price_change = Delta(cur.fuel_price, prev.fuel_price)
                         /\ r.cpi_change = Delta(cur.cpi, prev.cpi)
                         /\ r.unemployment_change =
                                Delta(cur.unemployment, prev.unemployment)

MaxMarkdownRows == 1    \* rows of a frame passed to create_markdown_features

\* The cells of markdown column m: null, zero or a markdown, and in the first
\* two columns a negative amount too.
MarkdownCells(m) ==
    {NaN, Some(0), Some(300)} \cup (IF m <= 2 THEN {Some(-200)} ELSE {})

MarkdownRowCells ==
    {c \in [1..5 -> {NaN, Some(0), Some(300), Some(-200)}] :
        \A m \in 1..5 : c[m] \in MarkdownCells(m)}

MarkdownRow(cells) ==
    [store_id |-> 1, date |-> FirstDate, markdown |-> cells]

MarkdownFrames ==
    {[i \in 1..Len(q) |-> MarkdownRow(q[i])] :
        q \in SeqsUpTo(MarkdownRowCells, MaxMarkdownRows)}

InitMarkdown ==
    /\ sales_df = <<>>
    /\ features_df \in MarkdownFrames
    /\ stores_df = <<>>
    /\ fe_op = "none"
    /\ fe_out = <<>>
    /\ IdleOutsideFE

\* create_markdown_features(features_df)
CreateMarkdownFeatures ==
    /\ fe_op = "none"
    /\ fe_out' = create_markdown_features(features_df)
    /\ fe_op' = "create_markdown_features"
    /\ UNCHANGED <<sales_df, features_df, stores_df, OutsideFE>>

NextMarkdown ==
    \/ CreateMarkdownFeatures

SpecMarkdown == InitMarkdown /\ [][NextMarkdown]_vars

\* C20: create_markdown_features treats a null markdown as 0: on every row
\* total_markdown is the sum of the five markdowns with nulls as 0, no
\* markdown of the output is null, has_markdown is 0 or 1 and is 1 exactly
\* when total_markdown > 0, and total_markdown >= 0 when no markdown of the
\* row is negative.
C20_MarkdownFill ==
    fe_op = "create_markdown_features" =>
        /\ Len(fe_out) = Len(features_df)
        /\ \A i \in 1..Len(fe_out) :
              LET in  == features_df[i].markdown
                  out == fe_out[i]
                  sum == SumSeq([m \in 1..5 |->
                             IF IsNull(in[m]) THEN 0 ELSE Val(in[m])])
              IN  /\ out.total_markdown = sum
                  /\ \A m \in 1..5 :
                        out.markdown[m] = (IF IsNull(in[m]) THEN Some(0) ELSE in[m])
                  /\ out.has_markdown \in {0, 1}
                  /\ out.has_markdown = 1 <=> out.total_markdown > 0
                  /\ (\A m \in 1..5 : IsNull(in[m]) \/ Val(in[m]) >= 0)
                        => out.total_markdown >= 0

\* create_markdown_features has run on a row that holds a null markdown, a
\* markdown and a negative amount, and whose total is 0 or less.
C20_Witness ==
    /\ fe_op = "create_markdown_features"
    /\ \E i \in 1..Len(features_df) :
          /\ \E m \in 1..5 : IsNull(features_df[i].markdown[m])
          /\ \E m \in 1..5 : features_df[i].markdown[m] = Some(-200)
          /\ \E m \in 1..5 : features_df[i].markdown[m] = Some(300)
          /\ fe_out[i].total_markdown <= 0
          /\ fe_out[i].has_markdown = 0

----------------------------------------------------------------------------
(* Specification of create_store_features                                  *)

InitStore == InitPipeline

\* create_store_features(sales_df, stores_df)
CreateStoreFeatures ==
    /\ fe_op = "none"
    /\ \E st \in StoreFrames :
          /\ stores_df' = st
          /\ fe_out' = create_store_features(sales_df, st)
    /\ fe_op' = "create_store_features"
    /\ UNCHANGED <<sales_df, features_df, OutsideFE>>

NextStore ==
    \/ CreateStoreFeatures

SpecStore == InitStore /\ [][NextStore]_vars

\* C21: every row create_store_features returns has exactly one of
\* store_type_a, store_type_b, store_type_c equal to 1 (their sum is 1), and
\* has no store_type and no size column.
C21_OneHotStoreType ==
    fe_op = "create_store_features" =>
        \A j \in 1..Len(fe_out) :
            LET r == fe_out[j]
            IN  /\ {r.store_type_a, r.store_type_b, r.store_type_c} \subseteq {0, 1}
                /\ r.store_type_a + r.store_type_b + r.store_type_c = 1
                /\ "store_type" \notin DOMAIN r
                /\ "size" \notin DOMAIN r

----------------------------------------------------------------------------
(* Properties of the generated forecast rows                               *)

\* The forecast dates generated for the series of base row i.
SeriesForecasts(i) ==
    {j \in 1..Len(forecast_df) :
        /\ forecast_df[j].store_id = fc_features[i].store_id
        /\ forecast_df[j].dept_id = fc_features[i].dept_id}

\* C22: generate_predictions emits exactly forecast_weeks rows for each
\* (store_id, dept_id) base row, one per week w = 1..forecast_weeks, dated
\* d + w weeks where d is the latest feature_date of that series: every date
\* is later than d and the dates are the consecutive weeks that follow d.
C22_WeeksAfterSeriesDate ==
    fc_pc = "write" =>
        \A i \in 1..Len(fc_features) :
            /\ Cardinality(SeriesForecasts(i)) = fc_weeks
            /\ {forecast_df[j].forecast_date : j \in SeriesForecasts(i)}
                  = {fc_features[i].feature_date + DaysPerWeek * w : w \in 1..fc_weeks}

----------------------------------------------------------------------------
(* Specification of generate_predictions over long horizons                *)

\* forecast_weeks: one week, the 8 of main(), and horizons around the week
\* at which 0.85 - 0.02 * (w - 1) passes 0.
HorizonWeeks == {1, 8, 43, 44}

\* Frames of one or two series.
HorizonFrames == {f \in LatestFrames : Len(f) <= 2}

InitHorizon ==
    /\ fc_features \in HorizonFrames
    /\ fc_model \in {Some(b) : b \in ForecastBoosters}
    /\ fc_weeks \in HorizonWeeks
    /\ forecasts = <<>>
    /\ forecast_df = <<>>
    /\ fc_pc = "idle"
    /\ fc_result = "none"
    /\ prev_forecasts = <<>>
    /\ seen = NotSeen
    /\ IdleOutsideForecast

NextHorizon ==
    \/ GeneratePredictions

SpecHorizon == InitHorizon /\ [][NextHorizon]_vars

\* The scale of confidence_score: 1.0 in ten-thousandths.
FullConfidence == 10000

\* Weeks ahead of a forecast row, counted from the frame's latest date.
WeeksAhead(r) ==
    (r.forecast_date
        - MaxOf({fc_features[i].feature_date : i \in 1..Len(fc_features)}))
            \div DaysPerWeek

ScoreFollowsHorizon ==
    /\ \A j \in 1..Len(forecast_df) :
          forecast_df[j].confidence_score =
              BaseConfidence - ConfidenceStep * (WeeksAhead(forecast_df[j]) - 1)
    /\ \A j, k \in 1..Len(forecast_df) :
          (/\ forecast_df[j].store_id = forecast_df[k].store_id
           /\ forecast_df[j].dept_id = forecast_df[k].dept_id
           /\ forecast_df[j].forecast_date < forecast_df[k].forecast_date)
              => forecast_df[k].confidence_score <= forecast_df[j].confidence_score

\* C23 as stated: for every forecast_weeks >= 1 the confidence_score of every
\* generated row lies in [0, 1] and is 0.85 - 0.02 * (w - 1) for the row w
\* weeks ahead, so that a later forecast_date of a series never has a higher
\* score.
C23_ScoreInUnitInterval ==
    fc_pc = "write" =>
        /\ ScoreFollowsHorizon
        /\ \A j \in 1..Len(forecast_df) :
              /\ forecast_df[j].confidence_score >= 0
              /\ forecast_df[j].confidence_score <= FullConfidence

\* C23, amended: the score of the row w weeks ahead is 0.85 - 0.02 * (w - 1),
\* at most 0.85 and never higher on a later date of a series; it is >= 0 on
\* every row exactly when 0.02 * (forecast_weeks - 1) <= 0.85, and negative on
\* the last weeks of a longer horizon.
C23_ScoreDecreasesUnclamped ==
    fc_pc = "write" =>
        /\ ScoreFollowsHorizon
        /\ \A j \in 1..Len(forecast_df) :
              forecast_df[j].confidence_score <= BaseConfidence
        /\ (ConfidenceStep * (fc_weeks - 1) <= BaseConfidence)
              <=> \A j \in 1..Len(forecast_df) :
                      forecast_df[j].confidence_score >= 0

\* A run over 44 weeks for two series has produced a row with the lowest
\* score that is not negative and a row with a negative score.
C23_Witness ==
    /\ fc_pc = "write"
    /\ Len(fc_features) = 2
    /\ ConfidenceStep * (fc_weeks - 1) > BaseConfidence
    /\ \E j \in 1..Len(forecast_df) :
          forecast_df[j].confidence_score = BaseConfidence % ConfidenceStep
    /\ \E j \in 1..Len(forecast_df) : forecast_df[j].confidence_score < 0

\* The names of the calendar-derived fields.
CalendarNames ==
    {"week_of_year", "month", "quarter", "is_month_start", "is_month_end",
     "is_quarter_start", "is_quarter_end", "year", "day_of_week",
     "day_of_month", "day_of_year"}

\* The feature vector of base row i for week w of the run.
RunVector(i, w) ==
    FeatureVector(fc_features[i], FutureDates(fc_features, fc_weeks)[w],
                  get_feature_columns(Val(fc_model)))

\* C24: for every forecast row, the feature vector passed to the model
\* differs from the series' latest feature row only in calendar-derived
\* fields: every other column keeps the row's value (0 when the row has no
\* such column), in every forecast week alike, and the prediction of the row
\* is the model's on that vector.
C24_OnlyCalendarChanges ==
    fc_pc = "write" =>
        \A i \in 1..Len(fc_features), w \in 1..fc_weeks :
            LET X   == RunVector(i, w)
                row == fc_features[i]
            IN  /\ \A c \in DOMAIN X \ CalendarNames :
                      X[c] = (IF c \in DOMAIN row THEN row[c] ELSE 0)
                /\ forecast_df[(i - 1) * fc_weeks + w].predicted_sales
                      = Round2(PredictSales(Val(fc_model), X))

\* A run has predicted a week of another month than the base row's from a
\* vector that carries the row's lag and holiday flag unchanged.
C24_Witness ==
    /\ fc_pc = "write"
    /\ \E i \in 1..Len(fc_features), w \in 1..fc_weeks :
          /\ ~IsNull(fc_features[i].sales_lag_1)
          /\ RunVector(i, w).sales_lag_1 = fc_features[i].sales_lag_1
          /\ RunVector(i, w).is_holiday = fc_features[i].is_holiday
          /\ RunVector(i, w).month # fc_features[i].month

----------------------------------------------------------------------------
(* The weeks held out by the temporal split                                *)

DatesOf(df) == {df[i].feature_date : i \in 1..Len(df)}

\* Every feature date of the table is a whole number of weeks after the
\* first one.
WeeklySpaced(df) ==
    \A d \in DatesOf(df) : (d - FirstDate) % DaysPerWeek = 0

\* The last n distinct dates of a table.
LastDates(df, n) ==
    {d \in DatesOf(df) : Cardinality({e \in DatesOf(df) : e > d}) < n}

\* C25: for weekly-spaced feature dates, the validation part returned by
\* create_train_val_split(df, val_weeks=N) holds exactly the rows of the last
\* N distinct weekly dates of the table, and the training part the rows of
\* all earlier dates.
C25_LastWeeksHeldOut ==
    (split_op = "split" /\ WeeklySpaced(split_df)) =>
        /\ Range(val_df) =
              {r \in Range(split_df) : r.feature_date \in LastDates(split_df, val_weeks)}
        /\ Range(train_df) =
              {r \in Range(split_df) : r.feature_date \notin LastDates(split_df, val_weeks)}

----------------------------------------------------------------------------
(* Specification of the engineered_features table                          *)
(* (run_feature_engineering.py)                                            *)

\* The columns write_features_to_db selects, as a set (temperature,
\* temperature_deviation and size_normalized are not modelled).
columns ==
    {"store_id", "dept_id", "feature_date", "weekly_sales",
     "week_of_year", "month", "quarter", "is_month_start", "is_month_end",
     "is_holiday",
     "sales_lag_1", "sales_lag_2", "sales_lag_4", "sales_lag_8", "sales_lag_52",
     "rolling_mean_4", "rolling_mean_13", "rolling_mean_52",
     "rolling_std_4", "rolling_std_13", "rolling_min_4", "rolling_max_4",
     "fuel_price", "fuel_price_change", "cpi", "cpi_change",
     "unemployment", "unemployment_change",
     "total_markdown", "has_markdown", "markdown_count",
     "store_type_a", "store_type_b", "store_type_c"}

bool_cols ==
    {"is_month_start", "is_month_end", "is_holiday", "has_markdown",
     "store_type_a", "store_type_b", "store_type_c"}

\* The bool_cols the builders leave as 0/1 integers.
IntFlagCols == {"has_markdown", "store_type_a", "store_type_b", "store_type_c"}

\* The cell of the data frame's column c, on a row of engineer_features.
FrameCell(r, c) ==
    CASE c = "sales_lag_1"     -> r.sales_lag[1]
      [] c = "sales_lag_2"     -> r.sales_lag[2]
      [] c = "sales_lag_4"     -> r.sales_lag[4]
      [] c = "sales_lag_8"     -> r.sales_lag[8]
      [] c = "sales_lag_52"    -> r.sales_lag[52]
      [] c = "rolling_mean_4"  -> r.rolling_mean[4]
      [] c = "rolling_mean_13" -> r.rolling_mean[13]
      [] c = "rolling_mean_52" -> r.rolling_mean[52]
      [] c = "rolling_std_4"   -> r.rolling_std[4]
      [] c = "rolling_std_13"  -> r.rolling_std[13]
      [] c = "rolling_min_4"   -> r.rolling_min[4]
      [] c = "rolling_max_4"   -> r.rolling_max[4]
      [] c = "weekly_sales"    -> Some(r.weekly_sales)
      [] OTHER                 -> r[c]

\* The data frame engineer_features returns, by column name.
FlatFrame(df) ==
    [i \in 1..Len(df) |-> [c \in columns |-> FrameCell(df[i], c)]]

\* The frame without the columns in cs.
WithoutColumns(frame, cs) ==
    [i \in 1..Len(frame) |-> [c \in DOMAIN frame[i] \ cs |-> frame[i][c]]]

\* The cell written for column c: a missing column is filled with None,
\* which astype(bool) turns to False on the bool_cols.
WrittenCell(r, c) ==
    IF c \notin DOMAIN r THEN (IF c \in bool_cols THEN FALSE ELSE NaN)
    ELSE IF c \in IntFlagCols THEN r[c] # 0
    ELSE r[c]

\* An insert into engineered_features: the table declares the columns and no
\* uniqueness over (store_id, dept_id, feature_date), so every row is taken.
InsertRows(table, rows) == table \o rows

\* write_features_to_db(features_df): every column of the list, missing or
\* not, and the rows appended to the table (to_sql, if_exists='append').
write_features_to_db(table, frame) ==
    LET missing == IF frame = <<>> THEN {} ELSE columns \ DOMAIN frame[1]
    IN  [table    |-> InsertRows(table,
                         [i \in 1..Len(frame) |->
                             [c \in columns |-> WrittenCell(frame[i], c)]]),
         warnings |-> missing,
         outcome  |-> "written"]

MaxPipelineRuns == 2

\* The columns a frame passed to write_features_to_db may lack.
LackingColumns == {"has_markdown", "sales_lag_52", "rolling_std_13"}

\* raw_sales, features and stores as load_data_from_db reads them.
InitTable ==
    /\ sales_df \in SortedSalesFrames
    /\ features_df = AllFeatureRows
    /\ stores_df = AllStoreRows
    /\ fe_op = "none"
    /\ fe_out = <<>>
    /\ IdleOutsideFE

\* main() of run_feature_engineering.py: load, engineer, write.
RunFeaturePipeline ==
    /\ ef_call.run < MaxPipelineRuns
    /\ LET df == engineer_features(sales_df, features_df, stores_df)
           w  == write_features_to_db(ef_table, FlatFrame(df))
       IN  /\ fe_out' = df
           /\ fe_op' = "engineer_features"
           /\ ef_table' = w.table
           /\ ef_call' = [op |-> "main", lacking |-> w.warnings,
                          outcome |-> w.outcome, run |-> ef_call.run + 1]
    /\ UNCHANGED <<sales_df, features_df, stores_df, splitVars, wmaeVars,
                   fcVars, trVars, fitVars>>

\* write_features_to_db on an engineered frame that lacks a column.
WriteFeaturesLacking ==
    /\ ef_call.run < MaxPipelineRuns
    /\ \E c \in LackingColumns :
         LET df == engineer_features(sales_df, features_df, stores_df)
             w  == write_features_to_db(ef_table,
                                        WithoutColumns(FlatFrame(df), {c}))
         IN  /\ fe_out' = df
             /\ fe_op' = "engineer_features"
             /\ ef_table' = w.table
             /\ ef_call' = [op |-> "write_features_to_db",
                            lacking |-> w.warnings,
                            outcome |-> w.outcome, run |-> ef_call.run + 1]
    /\ UNCHANGED <<sales_df, features_df, stores_df, splitVars, wmaeVars,
                   fcVars, trVars, fitVars>>

NextTable ==
    \/ RunFeaturePipeline
    \/ WriteFeaturesLacking

SpecTable == InitTable /\ [][NextTable]_vars

\* C26: a write_features_to_db whose frame lacks a column of the list ends
\* in an error and adds no row to engineered_features; no row is ever
\* written with a missing column silently filled.
C26_MissingColumnRejected ==
    [][(ef_call' # ef_call /\ ef_call'.lacking # {})
          => (ef_call'.outcome = "error" /\ ef_table' = ef_table)]_vars

\* load_latest_features: the rows of the table at the latest feature_date of
\* their own series, ORDER BY store_id, dept_id.
load_latest_features(table) ==
    Flatten([s \in 1..Len(SeriesOrder) |->
        LET OfSeries(r) == /\ r.store_id = SeriesOrder[s][1]
                           /\ r.dept_id = SeriesOrder[s][2]
            rows == SelectSeq(table, OfSeries)
        IN  IF rows = <<>> THEN <<>>
            ELSE LET latest == MaxOf({rows[i].feature_date : i \in 1..Len(rows)})
                 IN  SelectSeq(rows, LAMBDA r : r.feature_date = latest)])

\* The forecast frame of a one-week run over the base rows of the table.
TableForecasts ==
    LET base == load_latest_features(ef_table)
        b    == LoadBooster([trees |-> <<StumpMonth>>,
                             feature_names |-> TableFeatureCols])
    IN  IF base = <<>> THEN <<>> ELSE generate_predictions(b, base, 1)

\* C29: after any number of pipeline runs over the same raw data the table
\* holds one row per (store_id, dept_id, feature_date), load_latest_features
\* returns one base row per series, and a forecast run emits one row per
\* (store_id, dept_id, forecast_date).
C29_OneRowPerKey ==
    (ef_call.op = "main" /\ ef_call.lacking = {}) =>
        /\ \A i, j \in 1..Len(ef_table) :
              (/\ ef_table[i].store_id = ef_table[j].store_id
               /\ ef_table[i].dept_id = ef_table[j].dept_id
               /\ ef_table[i].feature_date = ef_table[j].feature_date) => i = j
        /\ LET base == load_latest_features(ef_table)
           IN  \A i, j \in 1..Len(base) :
                  (/\ base[i].store_id = base[j].store_id
                   /\ base[i].dept_id = base[j].dept_id) => i = j
        /\ \A i, j \in 1..Len(TableForecasts) :
              (/\ TableForecasts[i].store_id = TableForecasts[j].store_id
               /\ TableForecasts[i].dept_id = TableForecasts[j].dept_id
               /\ TableForecasts[i].forecast_date = TableForecasts[j].forecast_date)
                 => i = j

----------------------------------------------------------------------------
(* Forecast runs that find no model or no features                         *)

\* C27: a forecast run that can load no model, or finds engineered_features
\* empty, ends in an error that leaves main() (fc_result "failed") and the
\* forecasts table is as it was.
C27_MissingInputsFail ==
    [][(MainNoModel \/ MainNoFeatures)
          => (fc_result' = "failed" /\ forecasts' = forecasts)]_vars

----------------------------------------------------------------------------
(* Specification of clean_data (train.py)                                  *)

\* load_training_data: the table ORDER BY store_id, dept_id, feature_date.
load_training_data(table) ==
    SortByKey(table, [i \in 1..Len(table) |->
        <<table[i].store_id, table[i].dept_id, table[i].feature_date>>])

SalesLagCols ==
    {"sales_lag_1", "sales_lag_2", "sales_lag_4", "sales_lag_8", "sales_lag_52"}

RollingStdCols == {"rolling_std_4", "rolling_std_13"}

\* The columns of the table whose name holds 'lag' or 'rolling'.
lag_cols ==
    SalesLagCols \cup RollingStdCols \cup
    {"rolling_mean_4", "rolling_mean_13", "rolling_mean_52",
     "rolling_min_4", "rolling_max_4"}

\* The numeric columns that can hold a null; the rolling mean, minimum and
\* maximum (min_periods=1) and the counts never do.
NullableCols ==
    SalesLagCols \cup RollingStdCols \cup
    {"weekly_sales", "fuel_price", "fuel_price_change", "cpi", "cpi_change",
     "unemployment", "unemployment_change"}

CellIsNull(r, c) == c \in NullableCols /\ IsNull(r[c])

\* fillna(0) on the numeric columns and astype(int) on the boolean ones.
CleanCell(r, c) ==
    IF c \in bool_cols THEN (IF r[c] THEN 1 ELSE 0)
    ELSE IF CellIsNull(r, c)
         THEN (IF c \in RollingStdCols THEN Some(<<0, 1>>) ELSE Some(0))
    ELSE r[c]

\* clean_data(df): dropna on the target, dropna(subset=lag_cols, how='all'),
\* then the fill and the conversion.
clean_data(df) ==
    LET t    == SelectSeq(df, LAMBDA r : ~CellIsNull(r, "weekly_sales"))
        kept == SelectSeq(t, LAMBDA r : \E c \in lag_cols : ~CellIsNull(r, c))
    IN  [i \in 1..Len(kept) |->
            [c \in DOMAIN kept[i] |-> CleanCell(kept[i], c)]]

\* The table after one pipeline run over the raw data.
WrittenTable(sales) ==
    write_features_to_db(<<>>,
        FlatFrame(engineer_features(sales, AllFeatureRows, AllStoreRows))).table

\* The table, or the table with the target of one row NULL.
CleanTables(sales) ==
    LET t == WrittenTable(sales)
    IN  {t} \cup {[t EXCEPT ![n].weekly_sales = NaN] : n \in 1..Len(t)}

InitClean ==
    /\ sales_df \in SortedSalesFrames
    /\ features_df = AllFeatureRows
    /\ stores_df = AllStoreRows
    /\ fe_op = "none"
    /\ fe_out = <<>>
    /\ ef_table \in CleanTables(sales_df)
    /\ ef_call = [op |-> "main", lacking |-> {}, outcome |-> "written",
                  run |-> 1]
    /\ IdleSplit /\ IdleWmae /\ IdleForecast /\ IdleTrainer /\ IdleFit

\* main() of train.py, steps 1 and 2: df = clean_data(load_training_data()).
CleanData ==
    /\ split_op = "none"
    /\ split_df' = clean_data(load_training_data(ef_table))
    /\ split_op' = "clean_data"
    /\ UNCHANGED <<train_df, val_df, val_weeks, feVars, wmaeVars, fcVars,
                   trVars, fitVars, efVars>>

NextClean ==
    \/ CleanData

SpecClean == InitClean /\ [][NextClean]_vars

SameKey(a, b) ==
    /\ a.store_id = b.store_id
    /\ a.dept_id = b.dept_id
    /\ a.feature_date = b.feature_date

\* C28: clean_data removes every row whose weekly_sales is null and every
\* row whose sales lags are all null for lack of history, and no row of the
\* result has a lag that was null in the input and is 0 in the result.
C28_NullLagsDropped ==
    split_op = "clean_data" =>
        \A j \in 1..Len(ef_table) :
            LET r   == ef_table[j]
                out == {i \in 1..Len(split_df) : SameKey(split_df[i], r)}
            IN  /\ IsNull(r.weekly_sales) => out = {}
                /\ (\A c \in SalesLagCols : IsNull(r[c])) => out = {}
                /\ \A i \in out, c \in SalesLagCols :
                      IsNull(r[c]) => split_df[i][c] # Some(0)

----------------------------------------------------------------------------
(* Calendar features at training time and at forecast time                 *)

\* C30: for every forecast date d the calendar features generate_predictions
\* writes (week_of_year, month, quarter, is_month_start, is_month_end) equal
\* the ones create_temporal_features derives for d.
C30_CalendarParity ==
    fc_pc = "write" =>
        \A i \in 1..Len(fc_features), w \in 1..fc_weeks :
            LET d == FutureDates(fc_features, fc_weeks)[w]
                X == RunVector(i, w)
                t == create_temporal_features(<<[date |-> d]>>)[1]
            IN  /\ X.week_of_year = t.week_of_year
                /\ X.month = t.month
                /\ X.quarter = t.quarter
                /\ (X.is_month_start = 1) <=> t.is_month_start
                /\ (X.is_month_end = 1) <=> t.is_month_end

====
